---- MODULE Spec2Model ----
(***************************************************************************)
(* State-vector quantum simulator of the repository:                       *)
(*   src/src/cpp/quantum_simulator.cpp   class QuantumSimulator            *)
(*   src/languages/c/quantum_simulator.c QuantumState and its functions    *)
(*                                                                         *)
(* Amplitudes are complex<double> in the source.  The model computes them  *)
(* exactly in the ring Z[sqrt 2][1/2]: a real number is <<a, b, k>>,       *)
(* standing for (a + b*sqrt(2)) / 2^k, kept in lowest terms.  Every gate   *)
(* angle the model draws is a multiple of pi/2, so every value the gates   *)
(* and the collapse produce from |0...0> lies in that ring.                *)
(*                                                                         *)
(* The doubles differ from these real numbers by rounding, about 1e-16 per *)
(* operation, which the specification's tolerance of 1e-9 absorbs wherever *)
(* a value is only compared with a value.  measure also branches on one:   *)
(* r < prob0.  The variable rounded says whether an amplitude may differ   *)
(* from the real number the model holds for it, and where the sum prob0    *)
(* of a rounded register is 1 as a real number, measure takes it to be     *)
(* either 1.0 or a double just below.                                      *)
(***************************************************************************)
EXTENDS Integers, Sequences, FiniteSets, TLC

\* ------------------------------------------------------------------ bounds
\* Largest qubit count for which the model builds the amplitude vector.
MaxQubits == 2
\* The random draws r of measure are j / 2^DrawBits, j in 0 .. 2^DrawBits - 1.
DrawBits == 1
\* The rotation angles of applyRY are theta = j * pi/2, j in 1 .. MaxAngle.
MaxAngle == 1

\* The gate calls a caller of SpecWorkers makes on one register.
MaxCalls == 2

\* The longest list of destinations a caller of SpecTravel passes, and the
\* largest cost and distance of a destination.
MaxDests == 2

MaxCost == 2

\* ------------------------------------------------- program constants
MAX_QUBITS == 32

\* The longest circuit the caller builds (the array holds MAX_GATES gates).
MaxGates == 2

MAX_GATES == 100

\* enum GateType
GATE_H == 0

GATE_X == 1

GATE_Y == 2

GATE_Z == 3

GATE_CNOT == 4

GATE_SWAP == 5

GateType == {GATE_H, GATE_X, GATE_Y, GATE_Z, GATE_CNOT, GATE_SWAP}
\* Width of int: 1 << n is defined for 0 <= n <= INT_BITS - 2.
INT_BITS == 32

\* ------------------------------------------------------ real arithmetic
\* A value that is not a finite double: the result of x / 0.0 or 0.0 / 0.0.
NaN == <<0, 0, -1>>
\* A finite real that lies outside the ring (the square root of a number
\* that is no power of two, say).
Irr == <<0, 0, -2>>

Bad(x) == x[3] < 0

Taint(x, y) == IF x = NaN \/ y = NaN THEN NaN ELSE Irr

Pow2(n) == 2 ^ n

RECURSIVE RNorm(_)
RNorm(x) ==
    IF x[3] > 0 /\ x[1] % 2 = 0 /\ x[2] % 2 = 0
    THEN RNorm(<<x[1] \div 2, x[2] \div 2, x[3] - 1>>)
    ELSE x

RZero == <<0, 0, 0>>
ROne == <<1, 0, 0>>

RMax(m, n) == IF m > n THEN m ELSE n

RAdd(x, y) ==
    IF Bad(x) \/ Bad(y) THEN Taint(x, y)
    ELSE IF y = RZero THEN x
    ELSE IF x = RZero THEN y
    ELSE IF x[3] = y[3] THEN RNorm(<<x[1] + y[1], x[2] + y[2], x[3]>>)
    ELSE LET k == RMax(x[3], y[3])
             sx == Pow2(k - x[3])
             sy == Pow2(k - y[3])
         IN  RNorm(<<x[1] * sx + y[1] * sy, x[2] * sx + y[2] * sy, k>>)

RNeg(x) == IF Bad(x) THEN x ELSE <<-x[1], -x[2], x[3]>>

RSub(x, y) == RAdd(x, RNeg(y))

RMul(x, y) ==
    IF Bad(x) \/ Bad(y) THEN Taint(x, y)
    ELSE IF x = RZero \/ y = RZero THEN RZero
    ELSE IF y = ROne THEN x
    ELSE IF x = ROne THEN y
    ELSE RNorm(<<x[1] * y[1] + 2 * x[2] * y[2],
                 x[1] * y[2] + x[2] * y[1],
                 x[3] + y[3]>>)

\* The sign of a + b*sqrt(2): -1, 0 or 1.
RSign(x) ==
    LET a == x[1]
        b == x[2]
    IN  IF a = 0 /\ b = 0 THEN 0
        ELSE IF a >= 0 /\ b >= 0 THEN 1
        ELSE IF a <= 0 /\ b <= 0 THEN -1
        ELSE IF a > 0 THEN (IF a * a > 2 * b * b THEN 1 ELSE -1)
        ELSE (IF 2 * b * b > a * a THEN 1 ELSE -1)

\* x < y on doubles: false as soon as one side is a NaN.
RLess(x, y) == ~Bad(x) /\ ~Bad(y) /\ RSign(RSub(y, x)) = 1

IsPow2(m) == m = 1 \/ (m > 0 /\ \E e \in 1..30 : Pow2(e) = m)

Log2(m) == IF m = 1 THEN 0 ELSE CHOOSE e \in 1..30 : Pow2(e) = m

IsSquare(m) == m >= 0 /\ \E s \in 0..m : s * s = m

ISqrt(m) == CHOOSE s \in 0..m : s * s = m

\* sqrt(p) of <cmath>, for p = a / 2^k.
RSqrt(p) ==
    IF Bad(p) THEN p
    ELSE IF RSign(p) < 0 THEN NaN
    ELSE IF p[2] # 0 THEN Irr
    ELSE LET a == IF p[3] % 2 = 0 THEN p[1] ELSE 2 * p[1]
             h == (IF p[3] % 2 = 0 THEN p[3] ELSE p[3] + 1) \div 2
         IN  IF IsSquare(a) THEN RNorm(<<ISqrt(a), 0, h>>)
             ELSE IF a % 2 = 0 /\ IsSquare(a \div 2)
                  THEN RNorm(<<0, ISqrt(a \div 2), h>>)
             ELSE Irr

\* x / sqrt(2.0)
RDivSqrt2(x) == IF Bad(x) \/ x = RZero THEN x ELSE RNorm(<<2 * x[2], x[1], x[3] + 1>>)

\* x / y for y = m / 2^j or y = m*sqrt(2) / 2^j.
RDiv(x, y) ==
    IF Bad(x) \/ Bad(y) THEN Taint(x, y)
    ELSE IF y = RZero THEN NaN
    ELSE IF x = RZero \/ y = ROne THEN x
    ELSE IF y[1] # 0 /\ y[2] # 0 THEN Irr
    ELSE LET m == IF y[2] = 0 THEN y[1] ELSE y[2]
             s == IF m < 0 THEN -1 ELSE 1
             e == Log2(s * m)
             z == IF y[2] = 0 THEN x ELSE RDivSqrt2(x)
         IN  IF ~IsPow2(s * m) THEN Irr
             ELSE LET w == RNorm(<<s * z[1] * Pow2(y[3]), s * z[2] * Pow2(y[3]), z[3] + e>>)
                  IN  w

\* ---------------------------------------------------- complex<double>
Complex(re, im) == <<re, im>>

CZero == Complex(RZero, RZero)
COne == Complex(ROne, RZero)

CAdd(a, b) == Complex(RAdd(a[1], b[1]), RAdd(a[2], b[2]))
CSub(a, b) == Complex(RSub(a[1], b[1]), RSub(a[2], b[2]))
\* double * complex
CScale(s, a) == Complex(RMul(s, a[1]), RMul(s, a[2]))
\* complex / double
CDivReal(a, s) == Complex(RDiv(a[1], s), RDiv(a[2], s))
\* complex / sqrt(2.0)
CDivSqrt2(a) == Complex(RDivSqrt2(a[1]), RDivSqrt2(a[2]))
\* std::norm: the squared magnitude
norm(a) == RAdd(RMul(a[1], a[1]), RMul(a[2], a[2]))

\* ------------------------------------------------- the amplitude vector
\* vector<Complex> / double complex*: a function on 0 .. dim - 1.  A call
\* runs on m = [v |-> the vector, oob |-> whether an index outside it was
\* read or written]; g is what a read outside the vector finds there.
Mem(v) == [v |-> v, oob |-> FALSE]

InBounds(v, idx) == idx \in DOMAIN v

Access(m, idx) == IF InBounds(m.v, idx) THEN m ELSE [m EXCEPT !.oob = TRUE]

Load(m, idx, g) == IF InBounds(m.v, idx) THEN m.v[idx] ELSE g

Store(m, idx, x) ==
    IF InBounds(m.v, idx) THEN [m EXCEPT !.v[idx] = x] ELSE [m EXCEPT !.oob = TRUE]

\* (i & mask) != 0 for mask = 1 << q
BitSet(i, q) == (i \div Pow2(q)) % 2 = 1

\* i ^ (1 << q)
FlipBit(i, q) == IF BitSet(i, q) THEN i - Pow2(q) ELSE i + Pow2(q)

\* 1 << n on a 32-bit int is defined for 0 <= n <= 30.
ShiftDefined(n) == n >= 0 /\ n <= INT_BITS - 2

\* (variant for C21: the outer loop stepping by stride instead of 2 * stride,
\* so that the blocks overlap)
PairSeqOverlapping(stride, dim) ==
    LET blocks == (dim + stride - 1) \div stride
    IN  [n \in 1..(blocks * stride) |->
            LET i == stride * ((n - 1) \div stride)
                j == (n - 1) % stride
            IN  <<i + j, i + j + stride>>]

\* (variant for C23: every index beginning a pair, so that the pairs share
\* indices)
PairSeqSharing(stride, dim) ==
    [n \in 1..(dim - stride) |-> <<n - 1, n - 1 + stride>>]

\* The (idx0, idx1) pairs in the order of the loops
\*   for (i = 0; i < dim; i += 2 * stride) for (j = 0; j < stride; ++j)
PairSeq(stride, dim) ==
    LET blocks == (dim + 2 * stride - 1) \div (2 * stride)
    IN  [n \in 1..(blocks * stride) |->
            LET i == 2 * stride * ((n - 1) \div stride)
                j == (n - 1) % stride
            IN  <<i + j, i + j + stride>>]

\* ------------------------------------------------------------- gates
\* (variant for C6: the copies a and b left out, so that the second
\* assignment reads the amplitude the first has just written)
HadamardPairOverwritten(m, idx0, idx1, g) ==
    LET m0 == Store(Access(Access(m, idx0), idx1), idx0,
                    CDivSqrt2(CAdd(Load(m, idx0, g), Load(m, idx1, g))))
    IN  Store(m0, idx1, CDivSqrt2(CSub(Load(m0, idx0, g), Load(m0, idx1, g))))

\* The body of applyH's inner loop (apply_hadamard has the same body).
HadamardPair(m, idx0, idx1, g) ==
    LET a == Load(m, idx0, g)
        b == Load(m, idx1, g)
        m0 == Store(Access(Access(m, idx0), idx1), idx0, CDivSqrt2(CAdd(a, b)))
    IN  Store(m0, idx1, CDivSqrt2(CSub(a, b)))

\* (variant for C7: an assignment in place of the swap)
SwapPairLosing(m, idx0, idx1, g) ==
    Store(Access(Access(m, idx0), idx1), idx0, Load(m, idx1, g))

\* The body of applyX's inner loop: swap(state_vector[i + j], state_vector[i + j + stride]).
SwapPair(m, idx0, idx1, g) ==
    LET a == Load(m, idx0, g)
        b == Load(m, idx1, g)
    IN  Store(Store(Access(Access(m, idx0), idx1), idx0, b), idx1, a)

\* cos(theta / 2.0) and sin(theta / 2.0) for theta = j * pi/2.
CosHalf(j) ==
    CASE j % 8 = 0 -> <<1, 0, 0>>
      [] j % 8 = 1 -> <<0, 1, 1>>
      [] j % 8 = 2 -> <<0, 0, 0>>
      [] j % 8 = 3 -> <<0, -1, 1>>
      [] j % 8 = 4 -> <<-1, 0, 0>>
      [] j % 8 = 5 -> <<0, -1, 1>>
      [] j % 8 = 6 -> <<0, 0, 0>>
      [] OTHER -> <<0, 1, 1>>

SinHalf(j) ==
    CASE j % 8 = 0 -> <<0, 0, 0>>
      [] j % 8 = 1 -> <<0, 1, 1>>
      [] j % 8 = 2 -> <<1, 0, 0>>
      [] j % 8 = 3 -> <<0, 1, 1>>
      [] j % 8 = 4 -> <<0, 0, 0>>
      [] j % 8 = 5 -> <<0, -1, 1>>
      [] j % 8 = 6 -> <<-1, 0, 0>>
      [] OTHER -> <<0, -1, 1>>

\* The body of applyRY's inner loop.
RotationPair(cos_theta, sin_theta, m, idx0, idx1, g) ==
    LET a == Load(m, idx0, g)
        b == Load(m, idx1, g)
        m0 == Store(Access(Access(m, idx0), idx1), idx0,
                    CSub(CScale(cos_theta, a), CScale(sin_theta, b)))
    IN  Store(m0, idx1, CAdd(CScale(sin_theta, a), CScale(cos_theta, b)))

\* The body of the loops over pairs, by gate: "H", "X", or "RY" with theta = j * pi/2.
PairBody(gate, j, m, idx0, idx1, g) ==
    IF gate = "H" THEN HadamardPair(m, idx0, idx1, g)
    ELSE IF gate = "X" THEN SwapPair(m, idx0, idx1, g)
    ELSE RotationPair(CosHalf(j), SinHalf(j), m, idx0, idx1, g)

\* The two nested loops of applyH, applyX and applyRY, from the n-th pair on.
RECURSIVE ForPairs(_, _, _, _, _, _)
ForPairs(gate, j, m, pairs, n, g) ==
    IF n > Len(pairs) THEN m
    ELSE ForPairs(gate, j, PairBody(gate, j, m, pairs[n][1], pairs[n][2], g), pairs, n + 1, g)

\* applyH(q) on a register of num qubits.
HadamardLoop(m, num, q, g) ==
    ForPairs("H", 0, m, PairSeq(Pow2(q), Pow2(num)), 1, g)

\* applyX(q)
PauliXLoop(m, num, q, g) ==
    ForPairs("X", 0, m, PairSeq(Pow2(q), Pow2(num)), 1, g)

\* applyRY(q, theta), theta = j * pi/2
RotationYLoop(m, num, q, j, g) ==
    ForPairs("RY", j, m, PairSeq(Pow2(q), Pow2(num)), 1, g)

\* (variant for C3: the test of the target bit left out, so that each pair
\* is swapped twice)
CnotStepNoTargetTest(m, i, c, t, g) ==
    IF BitSet(i, c)
    THEN SwapPair(m, i, IF BitSet(i, t) THEN i - Pow2(t) ELSE i + Pow2(t), g)
    ELSE m

\* (variant for C20: the control bit not tested)
CnotStepNoControlTest(m, i, c, t, g) ==
    IF ~BitSet(i, t)
    THEN SwapPair(m, i, FlipBit(i, t), g)
    ELSE m

\* One iteration of applyCNOT's loop, at index i.
CnotStep(m, i, c, t, g) ==
    IF BitSet(i, c) /\ ~BitSet(i, t)
    THEN SwapPair(m, i, FlipBit(i, t), g)
    ELSE m

RECURSIVE CnotLoop(_, _, _, _, _, _)
CnotLoop(m, i, dim, c, t, g) ==
    IF i >= dim THEN m
    ELSE CnotLoop(CnotStep(m, i, c, t, g), i + 1, dim, c, t, g)

\* ------------------------------------------------------- measurement
\* The first loop of measure: prob0 += norm(state_vector[i]) where (i & mask) == 0.
RECURSIVE SumProb0(_, _, _, _, _)
SumProb0(v, i, dim, q, prob0) ==
    IF i >= dim THEN prob0
    ELSE SumProb0(v, i + 1, dim, q,
                  IF BitSet(i, q) THEN prob0 ELSE RAdd(prob0, norm(v[i])))

\* (variant for C13: the amplitudes that stay are not divided by sqrt(prob0))
ProjectZeroNoRescale(v, q, prob0) ==
    [i \in DOMAIN v |-> IF BitSet(i, q) THEN CZero ELSE v[i]]

\* The branch r < prob0: project onto |0>.
ProjectZero(v, q, prob0) ==
    LET s == RSqrt(prob0)
    IN  [i \in DOMAIN v |-> IF BitSet(i, q) THEN CZero ELSE CDivReal(v[i], s)]

\* (variant for C4: the amplitudes of the other outcome not set to 0)
ProjectOneKeepsOther(v, q, prob1) ==
    LET s == RSqrt(prob1)
    IN  [i \in DOMAIN v |-> IF BitSet(i, q) THEN CDivReal(v[i], s) ELSE v[i]]

\* The other branch, prob1 = 1.0 - prob0: project onto |1>.
ProjectOne(v, q, prob1) ==
    LET s == RSqrt(prob1)
    IN  [i \in DOMAIN v |-> IF BitSet(i, q) THEN CDivReal(v[i], s) ELSE CZero]

\* The other branch where prob0 was rounded to just below 1.0: prob1 is a few
\* ulps, and every amplitude left is a zero divided by its square root.
ProjectOneTiny(v, q) ==
    [i \in DOMAIN v |-> IF ~BitSet(i, q) \/ v[i] = CZero THEN CZero ELSE Complex(Irr, Irr)]

\* A double next to a real number of the ring: x - ulps * 2^-53.
Near(x, ulps) == [x |-> x, ulps |-> ulps]

\* x < y on two such doubles.
Less(x, y) == RLess(x.x, y.x) \/ (x.x = y.x /\ x.ulps > y.ulps)

\* prob0 as the first loop of measure leaves it: the sum of the squares of
\* rounded amplitudes whose squares add up to 1 may stop below 1.0.
Computed(prob0, rnd) ==
    IF rnd /\ prob0 = ROne THEN {Near(ROne, 0), Near(ROne, 2)} ELSE {Near(prob0, 0)}

\* (variant for C27: the test r <= prob0)
OutcomeInclusive(r, prob0) == IF Less(prob0, r) THEN 1 ELSE 0

\* if (r < prob0): the bit that measure returns for the draw r.
Outcome(r, prob0) == IF Less(r, prob0) THEN 0 ELSE 1

\* One iteration of the second loop of measure, on the amplitude a at an index
\* whose bit q is set or not: what ProjectZero, ProjectOne and ProjectOneTiny
\* do to one amplitude.
CollapseAt(a, set, bit, prob0) ==
    IF bit = 0 THEN IF set THEN CZero ELSE CDivReal(a, RSqrt(prob0.x))
    ELSE IF prob0.ulps > 0
    THEN IF ~set \/ a = CZero THEN CZero ELSE Complex(Irr, Irr)
    ELSE IF set THEN CDivReal(a, RSqrt(RSub(ROne, prob0.x))) ELSE CZero

\* Whether the division by sqrt(prob0) or sqrt(prob1) leaves rounded amplitudes.
\* One amplitude x alone divided by sqrt(x * x) is exactly 1 or -1; a division
\* by sqrt(1.0) changes nothing; the zeros of ProjectOneTiny are exact.
Survivors(v, q, bit) ==
    {i \in DOMAIN v : BitSet(i, q) = (bit = 1) /\ v[i] # CZero}

RoundedAfterMeasure(v, q, bit, prob0, rnd) ==
    IF bit = 0 THEN Cardinality(Survivors(v, q, 0)) # 1
    ELSE IF prob0.ulps > 0 THEN FALSE
    ELSE IF prob0.x = RZero THEN rnd
    ELSE TRUE

\* Whether a Hadamard pass leaves rounded amplitudes: it divides by sqrt(2).
NonZero(v) == \E i \in DOMAIN v : v[i] # CZero

\* Whether applyRY leaves rounded amplitudes: cos(0) and sin(0) are exact.
RoundedAfterRY(j, rnd) == rnd \/ j % 8 # 0

\* (variant for C19: the moduli not squared)
ProbabilitiesNotSquared(v) == [i \in DOMAIN v |-> RAdd(v[i][1], v[i][2])]

\* getProbabilities
Probabilities(v) == [i \in DOMAIN v |-> norm(v[i])]

RECURSIVE SumFrom(_, _)
SumFrom(p, i) == IF i \notin DOMAIN p THEN RZero ELSE RAdd(p[i], SumFrom(p, i + 1))

\* The total probability of a vector.
TotalProbability(v) == SumFrom(Probabilities(v), 0)

\* ------------------------------------------------------- construction
\* (variant for C2: state_vector[0] = 1 left out)
InitVectorUnset(dim) == [i \in 0..(dim - 1) |-> CZero]

\* resize(dim, Complex(0.0, 0.0)); state_vector[0] = Complex(1.0, 0.0)
InitVector(dim) == [i \in 0..(dim - 1) |-> IF i = 0 THEN COne ELSE CZero]

\* calloc(dimension, sizeof(double complex)): all bits zero
ZeroVector(dim) == [i \in 0..(dim - 1) |-> CZero]

\* initialize_state: amplitudes[i] = 0.0 for every i, then amplitudes[0] = 1.0
InitializedVector(dim) == [i \in 0..(dim - 1) |-> IF i = 0 THEN COne ELSE CZero]

EmptyVector == [i \in {} |-> CZero]

INT_MIN == (-Pow2(INT_BITS - 2)) - Pow2(INT_BITS - 2)

\* What 1 << n may give where the shift is undefined: x86 shifts by n mod 32
\* and reaches the sign bit for n mod 32 = 31; other targets give 0.
UndefinedShift(n) ==
    {0, IF n % INT_BITS = INT_BITS - 1 THEN INT_MIN ELSE Pow2(n % INT_BITS)}

ShiftLeftOne(n) == IF ShiftDefined(n) THEN {Pow2(n)} ELSE UndefinedShift(n)

\* ---------------------------------------------------------------- state
VARIABLES
    phase,         \* "start": nothing constructed; "cpp": a QuantumSimulator lives;
                   \* "c": a QuantumState lives; "threw": the constructor threw;
                   \* "null": create_state returned NULL; "ub": the last call had
                   \* undefined behaviour: the process has crashed, hangs in the
                   \* call, or goes on from the state shown, one outcome of many
    num_qubits,    \* QuantumSimulator::num_qubits
    state_vector,  \* QuantumSimulator::state_vector
    state,         \* the QuantumState* of the C program
    ret,           \* what the last call returned (measure's bit), -1 if nothing
    drew,          \* the last call took a number from dist(rng)
    probs,         \* the vector the last call returned (getProbabilities)
    err,           \* the error the last call reported, "none" if it reported none
    oob,           \* the last call read or wrote an index outside the vector
    rounded,       \* an amplitude may differ by rounding from the model's value
    circuit,       \* the QuantumCircuit* of the C program
    twin,          \* a second QuantumSimulator, built and called as the first is
                   \* (in SpecTwin)
    loop,          \* the call that is running, or ran last, and where its loops
                   \* stand (in SpecLoop, which takes the calls step by step)
    locals,        \* the data of the running call (in SpecLoop)
    par,           \* the gate calls that run at the same time (in SpecWorkers)
    opt,           \* the QuantumResult of optimize (in SpecTravel)
    bell,          \* progress through the Bell trial: createBellState on a fresh
                   \* 2-qubit register, measure(0), measure(1), and the bits seen
    last,          \* the last call, its name and arguments (recorded in SpecTrace)
    pre            \* the amplitude vector when the last call began (in SpecTrace)

vars == <<phase, num_qubits, state_vector, state, ret, drew, probs, err, oob, rounded,
          circuit, twin, loop, locals, par, opt, bell, last, pre>>

\* The arguments the model passes: every in-range index, one past the largest
\* register, and a negative one.
QubitArgs == (-1)..MaxQubits

CountArgs == ((-1)..MaxQubits) \cup {MAX_QUBITS - 1, MAX_QUBITS, MAX_QUBITS + 1}

AngleArgs == 1..MaxAngle

\* The draws of dis(rng): a grid over [0, 1), and the largest double below 1.
Draws == {Near(RNorm(<<j, 0, DrawBits>>), 0) : j \in 0..(Pow2(DrawBits) - 1)}
             \cup {Near(ROne, 1)}

\* What a read outside the vector may find.
Garbage == {CZero, COne}

NullState == [null |-> TRUE, num_qubits |-> 0, dimension |-> 0, amplitudes |-> EmptyVector]

\* struct QuantumGate (angle is always 0.0) and struct QuantumCircuit; gates[i]
\* of the array is gates[i + 1] of the sequence.
QuantumGate(type, target, control) == [type |-> type, target |-> target, control |-> control]

NullCircuit == [null |-> TRUE, num_qubits |-> 0, num_gates |-> 0, gates |-> <<>>]

\* The values random_device{}() gives the two constructors.
Seeds == {0, 1}

\* The second register: whether its rng got the seed of the first, its
\* state_vector, what its last call returned, whether it holds rounded amplitudes.
Twin(same, v, bit, rnd) == [same |-> same, v |-> v, ret |-> bit, rnd |-> rnd]

NoTwin == Twin(FALSE, EmptyVector, -1, FALSE)

\* The control of a running call: the loop counters i and j, the pass of
\* measure, the iterations of the current pass; in simulate_circuit the gate
\* index k, the function apply_gate has entered (inner: "H", "X" or "none"),
\* and the gates applied (iters).
Frame(op, a, b) ==
    [op |-> op, a |-> a, b |-> b, running |-> TRUE, pass |-> 1, k |-> 0,
     inner |-> "none", i |-> 0, j |-> 0, iters |-> 0]

NoFrame == [Frame("none", -1, -1) EXCEPT !.running = FALSE]

\* The data of a running call: measure's prob0 as summed so far, then as
\* compared with the draw (p), and the bit it chose; v0 is the vector the call
\* began on.
Locals(v0) == [prob0 |-> RZero, p |-> Near(RZero, 0), bit |-> -1, v0 |-> v0]

NoLocals == Locals(EmptyVector)

\* The gate calls that run at the same time (SpecWorkers).  kind: "none", "fork" or "race"; v0: the vector when the calls began;
\* serial: no update so far was out of turn (in a fork: out of loop order; in
\* a race: while the other call was part way); first: the call that made the
\* first update; count: the calls made on this register.
NoWorkers ==
    [kind |-> "none", jobs |-> <<>>, v0 |-> EmptyVector, serial |-> TRUE,
     first |-> 0, count |-> 0]

\* The QuantumTravelOptimizer (built, num_qubits), the last call of optimize
\* (its arguments, the pattern it measured, whether it read outside the state
\* and whether it returned) and the struct QuantumResult it filled.
NoResult ==
    [built |-> FALSE, num_qubits |-> 0, called |-> FALSE, returned |-> FALSE,
     outside |-> FALSE, destinations |-> <<>>, best_measurement |-> 0,
     max_destinations |-> 0, max_budget |-> 0,
     optimal_route |-> <<>>, optimal_cost |-> 0, total_distance |-> 0]

\* A call: its name, its arguments, and whether the call before it was the same.
Call(op, a, b, again) == [op |-> op, a |-> a, b |-> b, again |-> again]

NoTrial == [stage |-> 0, bits |-> <<>>]

\* What a call returns: an int (measure), a vector (getProbabilities), or void.
Returns(bit, vec) == ret' = bit /\ probs' = vec

Void == Returns(-1, EmptyVector) /\ drew' = FALSE

InRange(q, num) == q >= 0 /\ q < num

\* The amplitude vector of the register that lives.
Amplitudes == IF phase = "c" THEN state.amplitudes ELSE state_vector

Init ==
    /\ phase = "start"
    /\ num_qubits = 0
    /\ state_vector = EmptyVector
    /\ state = NullState
    /\ ret = -1
    /\ drew = FALSE
    /\ probs = EmptyVector
    /\ err = "none"
    /\ oob = FALSE
    /\ rounded = FALSE
    /\ circuit = NullCircuit
    /\ twin = NoTwin
    /\ loop = NoFrame
    /\ locals = NoLocals
    /\ par = NoWorkers
    /\ opt = NoResult
    /\ bell = NoTrial
    /\ last = Call("none", -1, -1, FALSE)
    /\ pre = EmptyVector

\* ------------------------------------------------ class QuantumSimulator
\* QuantumSimulator(n): no check of n; dim = 1 << n.
Construct(n) ==
    /\ phase = "start"
    /\ \E dim \in ShiftLeftOne(n) :
         /\ num_qubits' = n
         /\ IF dim < 0
            THEN \* resize(size_t(dim)) throws std::length_error
                 /\ state_vector' = EmptyVector
                 /\ phase' = "threw" /\ err' = "exception" /\ oob' = FALSE
            ELSE IF dim = 0
            THEN \* resize(0), then state_vector[0] is written
                 /\ state_vector' = EmptyVector
                 /\ phase' = "ub" /\ err' = "none" /\ oob' = TRUE
            ELSE /\ state_vector' = InitVector(dim)
                 /\ phase' = IF ShiftDefined(n) THEN "cpp" ELSE "ub"
                 /\ err' = "none" /\ oob' = FALSE
    /\ Void
    /\ rounded' = FALSE
    /\ bell' = NoTrial
    /\ UNCHANGED state

\* How a call ends: normally (in phase ok), or with undefined behaviour after
\* an access outside the vector or a shift by a count outside 0 .. 30.
AfterCall(ok, shift_ok, m) == IF shift_ok /\ ~m.oob THEN ok ELSE "ub"

\* A call that reads outside the vector finds any of Garbage there; one that
\* stays inside reads none of it.
GarbageFor(in_range) == IF in_range THEN {CZero} ELSE Garbage

\* The end of a member call of QuantumSimulator: none reports an error.
Finish(shift_ok, m, rnd) ==
    /\ state_vector' = m.v
    /\ rounded' = rnd
    /\ oob' = m.oob
    /\ phase' = AfterCall("cpp", shift_ok, m)
    /\ err' = "none"
    /\ UNCHANGED <<num_qubits, state>>

applyH(q) ==
    /\ phase = "cpp"
    /\ \E g \in GarbageFor(InRange(q, num_qubits)) :
         Finish(ShiftDefined(q),
                IF ShiftDefined(q)
                THEN HadamardLoop(Mem(state_vector), num_qubits, q, g)
                ELSE Mem(state_vector),
                rounded \/ NonZero(state_vector))
    /\ Void
    /\ bell' = NoTrial

applyX(q) ==
    /\ phase = "cpp"
    /\ \E g \in GarbageFor(InRange(q, num_qubits)) :
         Finish(ShiftDefined(q),
                IF ShiftDefined(q)
                THEN PauliXLoop(Mem(state_vector), num_qubits, q, g)
                ELSE Mem(state_vector),
                rounded)
    /\ Void
    /\ bell' = NoTrial

applyCNOT(c, t) ==
    /\ phase = "cpp"
    /\ \E g \in GarbageFor(InRange(t, num_qubits)) :
         Finish(ShiftDefined(c) /\ ShiftDefined(t),
                IF ShiftDefined(c) /\ ShiftDefined(t)
                THEN CnotLoop(Mem(state_vector), 0, Pow2(num_qubits), c, t, g)
                ELSE Mem(state_vector),
                rounded)
    /\ Void
    /\ bell' = NoTrial

applyRY(q, j) ==
    /\ phase = "cpp"
    /\ \E g \in GarbageFor(InRange(q, num_qubits)) :
         Finish(ShiftDefined(q),
                IF ShiftDefined(q)
                THEN RotationYLoop(Mem(state_vector), num_qubits, q, j, g)
                ELSE Mem(state_vector),
                RoundedAfterRY(j, rounded))
    /\ Void
    /\ bell' = NoTrial

\* The Bell trial goes on when measure(0) follows createBellState and when
\* measure(1) follows that; any other call ends it.
TrialAfterMeasure(q, bit) ==
    IF bell.stage = 1 /\ q = 0 THEN [stage |-> 2, bits |-> <<bit>>]
    ELSE IF bell.stage = 2 /\ q = 1 THEN [stage |-> 3, bits |-> Append(bell.bits, bit)]
    ELSE NoTrial

\* measure from the draw on, on the vector v: prob0 is what the first loop
\* summed, r what dist(rng) gave.
Measured(v, q, prob0, r, rnd) ==
    LET bit == Outcome(r, prob0)
    IN  [bit |-> bit,
         v |-> IF bit = 0 THEN ProjectZero(v, q, prob0.x)
               ELSE IF prob0.ulps > 0 THEN ProjectOneTiny(v, q)
               ELSE ProjectOne(v, q, RSub(ROne, prob0.x)),
         rnd |-> RoundedAfterMeasure(v, q, bit, prob0, rnd)]

\* measure(q) where the first loop sums prob0 and dist(rng) gives r.
measureWith(q, prob0, r) ==
    LET x == Measured(state_vector, q, prob0, r, rounded)
    IN  /\ Finish(TRUE, Mem(x.v), x.rnd)
        /\ Returns(x.bit, EmptyVector) /\ drew' = TRUE
        /\ bell' = TrialAfterMeasure(q, x.bit)

measure(q) ==
    /\ phase = "cpp"
    /\ IF ShiftDefined(q)
       THEN \E prob0 \in Computed(SumProb0(state_vector, 0, Pow2(num_qubits), q, RZero),
                                  rounded), r \in Draws :
              measureWith(q, prob0, r)
       ELSE \* int mask = 1 << q is undefined before anything is drawn
            /\ Finish(FALSE, Mem(state_vector), rounded)
            /\ Void
            /\ bell' = NoTrial

\* createBellState: applyH(0); applyCNOT(0, 1)
createBellState ==
    /\ phase = "cpp"
    /\ \E g \in GarbageFor(InRange(1, num_qubits)) :
         Finish(TRUE,
                CnotLoop(HadamardLoop(Mem(state_vector), num_qubits, 0, g),
                         0, Pow2(num_qubits), 0, 1, g),
                rounded \/ NonZero(state_vector))
    /\ Void
    /\ bell' = IF num_qubits = 2 /\ state_vector = InitVector(4)
               THEN [stage |-> 1, bits |-> <<>>]
               ELSE NoTrial

\* getProbabilities: norm(state_vector[i]) for every i; a const member.
getProbabilities ==
    /\ phase = "cpp"
    /\ Returns(-1, Probabilities(state_vector))
    /\ drew' = FALSE
    /\ err' = "none"
    /\ bell' = NoTrial
    /\ UNCHANGED <<phase, num_qubits, state_vector, state, oob, rounded>>

\* --------------------------------------------- QuantumState (C program)
\* create_state(n): NULL above MAX_QUBITS; no lower bound; dimension = 1 << n;
\* calloc leaves every amplitude 0.  ok: whether malloc and calloc succeed.
create_state(n, ok) ==
    /\ phase = "start"
    /\ IF n > MAX_QUBITS
       THEN state' = NullState /\ phase' = "null" /\ err' = "too many qubits"
       ELSE \E dim \in ShiftLeftOne(n) :
              IF ~ok \/ dim < 0
              THEN \* perror; calloc of size_t(dim) elements fails for dim < 0
                   state' = NullState /\ phase' = "null" /\ err' = "allocation failed"
              ELSE /\ state' = [null |-> FALSE, num_qubits |-> n, dimension |-> dim,
                                amplitudes |-> ZeroVector(dim)]
                   /\ phase' = IF ShiftDefined(n) THEN "c" ELSE "ub"
                   /\ err' = "none"
    /\ oob' = FALSE
    /\ Void
    /\ rounded' = FALSE
    /\ bell' = NoTrial
    /\ UNCHANGED <<num_qubits, state_vector>>

\* The end of a call on the QuantumState: none reports an error.
FinishState(shift_ok, m, rnd) ==
    /\ state' = [state EXCEPT !.amplitudes = m.v]
    /\ rounded' = rnd
    /\ oob' = m.oob
    /\ phase' = AfterCall("c", shift_ok, m)
    /\ err' = "none"
    /\ Void
    /\ bell' = NoTrial
    /\ UNCHANGED <<num_qubits, state_vector>>

initialize_state ==
    /\ phase = "c"
    /\ FinishState(TRUE, Mem(InitializedVector(state.dimension)), FALSE)

apply_hadamard(qubit) ==
    /\ phase = "c"
    /\ \E g \in GarbageFor(InRange(qubit, state.num_qubits)) :
         FinishState(ShiftDefined(qubit),
                     IF ShiftDefined(qubit)
                     THEN ForPairs("H", 0, Mem(state.amplitudes),
                                   PairSeq(Pow2(qubit), state.dimension), 1, g)
                     ELSE Mem(state.amplitudes),
                     rounded \/ NonZero(state.amplitudes))

apply_pauli_x(qubit) ==
    /\ phase = "c"
    /\ \E g \in GarbageFor(InRange(qubit, state.num_qubits)) :
         FinishState(ShiftDefined(qubit),
                     IF ShiftDefined(qubit)
                     THEN ForPairs("X", 0, Mem(state.amplitudes),
                                   PairSeq(Pow2(qubit), state.dimension), 1, g)
                     ELSE Mem(state.amplitudes),
                     rounded)

\* --------------------------------------------- QuantumCircuit (C program)
\* A run of gates on the state: the amplitudes, whether every shift was
\* defined, what went to stderr last, and whether amplitudes are rounded.
Run(v, rnd) == [m |-> Mem(v), shift_ok |-> TRUE, err |-> "none", rnd |-> rnd]

\* (variant for C16: the default branch falls into apply_pauli_x)
ApplyGateDefaultFlips(x, gate, dim, g) ==
    IF ~ShiftDefined(gate.target) THEN [x EXCEPT !.shift_ok = FALSE]
    ELSE IF gate.type = GATE_H
    THEN [x EXCEPT !.m = ForPairs("H", 0, x.m, PairSeq(Pow2(gate.target), dim), 1, g),
                   !.rnd = x.rnd \/ NonZero(x.m.v)]
    ELSE [x EXCEPT !.m = ForPairs("X", 0, x.m, PairSeq(Pow2(gate.target), dim), 1, g),
                   !.err = IF gate.type = GATE_X THEN x.err ELSE "not implemented"]

\* The switch of apply_gate: GATE_H and GATE_X have a case, every other type
\* goes to default, which prints "Gate type %d not implemented" and does nothing.
ApplyGate(x, gate, dim, g) ==
    IF gate.type = GATE_H
    THEN IF ShiftDefined(gate.target)
         THEN [x EXCEPT !.m = ForPairs("H", 0, x.m, PairSeq(Pow2(gate.target), dim), 1, g),
                        !.rnd = x.rnd \/ NonZero(x.m.v)]
         ELSE [x EXCEPT !.shift_ok = FALSE]
    ELSE IF gate.type = GATE_X
    THEN IF ShiftDefined(gate.target)
         THEN [x EXCEPT !.m = ForPairs("X", 0, x.m, PairSeq(Pow2(gate.target), dim), 1, g)]
         ELSE [x EXCEPT !.shift_ok = FALSE]
    ELSE [x EXCEPT !.err = "not implemented"]

\* for (i = 0; i < num_gates; i++) apply_gate(state, &gates[i]), from gate i on
RECURSIVE RunGates(_, _, _, _, _, _)
RunGates(x, gates, i, n, dim, g) ==
    IF i > n THEN x
    ELSE RunGates(ApplyGate(x, gates[i], dim, g), gates, i + 1, n, dim, g)

\* The end of apply_gate and of simulate_circuit on the QuantumState.
FinishRun(x) ==
    /\ state' = [state EXCEPT !.amplitudes = x.m.v]
    /\ rounded' = x.rnd
    /\ oob' = x.m.oob
    /\ phase' = AfterCall("c", x.shift_ok, x.m)
    /\ err' = x.err
    /\ Void
    /\ bell' = NoTrial
    /\ UNCHANGED <<num_qubits, state_vector>>

apply_gate(type, target, control) ==
    /\ phase = "c"
    /\ \E g \in GarbageFor(InRange(target, state.num_qubits)) :
         FinishRun(ApplyGate(Run(state.amplitudes, rounded),
                             QuantumGate(type, target, control), state.dimension, g))

\* create_circuit(n, name): NULL when malloc fails; num_gates = 0.
create_circuit(n, ok) ==
    /\ circuit.null
    /\ IF ok
       THEN circuit' = [null |-> FALSE, num_qubits |-> n, num_gates |-> 0, gates |-> <<>>]
            /\ err' = "none"
       ELSE circuit' = NullCircuit /\ err' = "allocation failed"
    /\ Void
    /\ bell' = NoTrial
    /\ UNCHANGED <<phase, num_qubits, state_vector, state, oob, rounded>>

\* (variant for C28: the test num_gates > MAX_GATES)
add_gateOffByOne(type, target, control) ==
    /\ ~circuit.null
    /\ IF circuit.num_gates > MAX_GATES
       THEN err' = "too many gates" /\ UNCHANGED circuit
       ELSE /\ circuit' = [circuit EXCEPT !.num_gates = @ + 1,
                                          !.gates = Append(@, QuantumGate(type, target, control))]
            /\ err' = "none"
    /\ Void
    /\ bell' = NoTrial
    /\ UNCHANGED <<phase, num_qubits, state_vector, state, oob, rounded>>

\* add_gate: refused with a message at MAX_GATES gates, appended otherwise.
add_gate(type, target, control) ==
    /\ ~circuit.null
    /\ IF circuit.num_gates >= MAX_GATES
       THEN err' = "too many gates" /\ UNCHANGED circuit
       ELSE /\ circuit' = [circuit EXCEPT !.num_gates = @ + 1,
                                          !.gates = Append(@, QuantumGate(type, target, control))]
            /\ err' = "none"
    /\ Void
    /\ bell' = NoTrial
    /\ UNCHANGED <<phase, num_qubits, state_vector, state, oob, rounded>>

simulate_circuit ==
    /\ phase = "c"
    /\ ~circuit.null
    /\ \E g \in GarbageFor(\A i \in 1..circuit.num_gates :
                               InRange(circuit.gates[i].target, state.num_qubits)) :
         FinishRun(RunGates(Run(state.amplitudes, rounded), circuit.gates,
                            1, circuit.num_gates, state.dimension, g))

\* ------------------------------------------------------ specifications
\* Spec: any caller, with any argument of QubitArgs and CountArgs.
Untraced == UNCHANGED <<last, pre, circuit, twin, loop, locals, par, opt>>

Next ==
    \/ \E n \in CountArgs : Construct(n) /\ Untraced
    \/ \E q \in QubitArgs : applyH(q) /\ Untraced
    \/ \E q \in QubitArgs : applyX(q) /\ Untraced
    \/ \E c \in QubitArgs, t \in QubitArgs : applyCNOT(c, t) /\ Untraced
    \/ \E q \in QubitArgs, j \in AngleArgs : applyRY(q, j) /\ Untraced
    \/ \E q \in QubitArgs : measure(q) /\ Untraced
    \/ createBellState /\ Untraced
    \/ getProbabilities /\ Untraced
    \/ \E n \in CountArgs, ok \in BOOLEAN : create_state(n, ok) /\ Untraced
    \/ initialize_state /\ Untraced
    \/ \E q \in QubitArgs : apply_hadamard(q) /\ Untraced
    \/ \E q \in QubitArgs : apply_pauli_x(q) /\ Untraced

Spec == Init /\ [][Next]_vars

\* SpecTrace: a caller that keeps to the contract (a qubit count in
\* 1 .. MaxQubits, every index in range), with the last call and the vector
\* it began on recorded.
Record(op, a, b) ==
    /\ last' = Call(op, a, b, last.op = op /\ last.a = a /\ last.b = b)
    /\ pre' = Amplitudes
    /\ UNCHANGED <<twin, loop, locals, par, opt>>

Traced(op, a, b) == Record(op, a, b) /\ UNCHANGED circuit

Qubits == 0..(MaxQubits - 1)

Live(q) == InRange(q, IF phase = "c" THEN state.num_qubits ELSE num_qubits)

NextTrace ==
    \/ \E n \in 1..MaxQubits : Construct(n) /\ Traced("QuantumSimulator", n, -1)
    \/ \E q \in Qubits : Live(q) /\ applyH(q) /\ Traced("applyH", q, -1)
    \/ \E q \in Qubits : Live(q) /\ applyX(q) /\ Traced("applyX", q, -1)
    \/ \E c \in Qubits, t \in Qubits :
         Live(c) /\ Live(t) /\ c # t /\ applyCNOT(c, t) /\ Traced("applyCNOT", c, t)
    \/ \E q \in Qubits, j \in AngleArgs :
         Live(q) /\ applyRY(q, j) /\ Traced("applyRY", q, j)
    \/ \E q \in Qubits : Live(q) /\ measure(q) /\ Traced("measure", q, -1)
    \/ Live(1) /\ createBellState /\ Traced("createBellState", -1, -1)
    \/ getProbabilities /\ Traced("getProbabilities", -1, -1)
    \/ \E n \in 1..MaxQubits : create_state(n, TRUE) /\ Traced("create_state", n, -1)
    \/ initialize_state /\ Traced("initialize_state", -1, -1)
    \/ \E q \in Qubits : Live(q) /\ apply_hadamard(q) /\ Traced("apply_hadamard", q, -1)
    \/ \E q \in Qubits : Live(q) /\ apply_pauli_x(q) /\ Traced("apply_pauli_x", q, -1)

SpecTrace == Init /\ [][NextTrace]_vars

\* SpecCircuit: the two callers of the C program that keep to the contract.
\* One, as main does, builds a circuit of at most MaxGates gates, then creates
\* a state of the circuit's qubit count, initializes it and simulates the
\* circuit; the other has no circuit and applies gates one by one.
OneQubitGate(type) == type \in {GATE_H, GATE_X, GATE_Y, GATE_Z}

\* The control a caller passes: -1 with a one-qubit gate, another qubit with a
\* two-qubit gate; main passes GATE_X with a control as its CNOT.
Controls(type, target, n) ==
    IF type = GATE_X THEN {-1} \cup {c \in 0..(n - 1) : c # target}
    ELSE IF OneQubitGate(type) THEN {-1}
    ELSE {c \in 0..(n - 1) : c # target}

NextCircuit ==
    \/ \E n \in 1..MaxQubits :
         phase = "start" /\ create_circuit(n, TRUE) /\ Record("create_circuit", n, -1)
    \/ \E type \in GateType, target \in Qubits :
         \E control \in Controls(type, target, circuit.num_qubits) :
           /\ phase = "start"
           /\ circuit.num_gates < MaxGates
           /\ InRange(target, circuit.num_qubits)
           /\ add_gate(type, target, control)
           /\ Record("add_gate", type, target)
    \/ \E n \in 1..MaxQubits :
         /\ circuit.null \/ n = circuit.num_qubits
         /\ create_state(n, TRUE)
         /\ Traced("create_state", n, -1)
    \/ initialize_state /\ Traced("initialize_state", -1, -1)
    \/ \E type \in GateType, target \in Qubits :
         \E control \in Controls(type, target, state.num_qubits) :
           /\ circuit.null
           /\ Live(target)
           /\ apply_gate(type, target, control)
           /\ Traced("apply_gate", type, target)
    \/ simulate_circuit /\ Traced("simulate_circuit", -1, -1)

SpecCircuit == Init /\ [][NextCircuit]_vars

\* SpecTwin: two QuantumSimulator objects of the same qubit count, each seeded
\* by its constructor from random_device, and given the same calls with
\* in-range indices.  mt19937 is deterministic: with the same seed the two
\* draw the same numbers; the same arithmetic on the same vector gives the
\* same prob0.
TwinDraws(r) == IF twin.same THEN {r} ELSE Draws

TwinComputed(q, prob0) ==
    IF twin.v = state_vector /\ twin.rnd = rounded THEN {prob0}
    ELSE Computed(SumProb0(twin.v, 0, Pow2(num_qubits), q, RZero), twin.rnd)

NextTwin ==
    \/ \E n \in 1..MaxQubits, seed1 \in Seeds, seed2 \in Seeds :
         /\ Construct(n)
         /\ twin' = Twin(seed1 = seed2, InitVector(Pow2(n)), -1, FALSE)
         /\ UNCHANGED <<last, pre, circuit, loop, locals, par, opt>>
    \/ \E q \in Qubits :
         /\ Live(q)
         /\ applyH(q)
         /\ twin' = [twin EXCEPT !.v = HadamardLoop(Mem(@), num_qubits, q, CZero).v,
                                 !.ret = -1,
                                 !.rnd = @ \/ NonZero(twin.v)]
         /\ UNCHANGED <<last, pre, circuit, loop, locals, par, opt>>
    \/ \E q \in Qubits :
         /\ Live(q)
         /\ applyX(q)
         /\ twin' = [twin EXCEPT !.v = PauliXLoop(Mem(@), num_qubits, q, CZero).v,
                                 !.ret = -1]
         /\ UNCHANGED <<last, pre, circuit, loop, locals, par, opt>>
    \/ \E q \in Qubits, r \in Draws :
         /\ phase = "cpp"
         /\ Live(q)
         /\ \E prob0 \in Computed(SumProb0(state_vector, 0, Pow2(num_qubits), q, RZero),
                                  rounded) :
              \E r2 \in TwinDraws(r), p2 \in TwinComputed(q, prob0) :
                /\ measureWith(q, prob0, r)
                /\ LET x == Measured(twin.v, q, p2, r2, twin.rnd)
                   IN  twin' = Twin(twin.same, x.v, x.bit, x.rnd)
         /\ UNCHANGED <<last, pre, circuit, loop, locals, par, opt>>

SpecTwin == Init /\ [][NextTwin]_vars

\* SpecLoop: the calls taken one loop iteration at a time.  A call begins
\* (Begin), runs the bodies of its loops (Iterate), moves between its loops
\* (Advance) and returns (Return); the caller keeps to the contract and waits
\* for the call to return.  The program is sequential and waits for nothing:
\* the control of a call that has begun keeps advancing (weak fairness on Tick).

\* (variant for C18: a loop condition i <= bound)
ContinuesInclusive(i, bound) == i <= bound

\* The condition of every for loop: i < bound.
Continues(i, bound) == i < bound

\* 1 << num_qubits, state->dimension
Dim == IF phase = "c" THEN state.dimension ELSE Pow2(num_qubits)

Memory == [v |-> Amplitudes, oob |-> oob]

SetMemory(m) ==
    /\ IF phase = "c"
       THEN state' = [state EXCEPT !.amplitudes = m.v] /\ UNCHANGED state_vector
       ELSE state_vector' = m.v /\ UNCHANGED state
    /\ oob' = m.oob

\* (variant for C26: the gates read from the end of the array)
GateAtReversed(k) ==
    IF k < circuit.num_gates THEN {circuit.gates[circuit.num_gates - k]}
    ELSE {QuantumGate(type, 0, -1) : type \in GateType}

\* gates[k] of the circuit: beyond num_gates the array holds what malloc left.
GateAt(k) ==
    IF k < circuit.num_gates THEN {circuit.gates[k + 1]}
    ELSE {QuantumGate(type, 0, -1) : type \in GateType}

\* Whether the call is in the loops over pairs: applyH, applyX, or, inside
\* simulate_circuit, apply_hadamard or apply_pauli_x (loop.inner).
InPairs == loop.op \in {"applyH", "applyX"} \/ loop.inner # "none"

PairGate == IF loop.inner # "none" THEN loop.inner ELSE IF loop.op = "applyH" THEN "H" ELSE "X"

\* The call has returned: its frame is gone (the model keeps the name of the
\* call and the iterations of its last pass).
Returned == [NoFrame EXCEPT !.op = loop.op, !.iters = loop.iters]

\* apply_gate(state, &gate): into apply_hadamard or apply_pauli_x, or through
\* default and back to the loop of simulate_circuit.
Dispatched(gate) ==
    IF gate.type \in {GATE_H, GATE_X} /\ ShiftDefined(gate.target)
    THEN [loop EXCEPT !.inner = IF gate.type = GATE_H THEN "H" ELSE "X",
                      !.a = gate.target, !.i = 0, !.j = 0, !.iters = @ + 1]
    ELSE [loop EXCEPT !.k = @ + 1, !.iters = @ + 1]

\* Where the control of the running call goes next: the for loops of applyH,
\* applyX, apply_hadamard and apply_pauli_x (i += 2 * stride around ++j), of
\* applyCNOT and measure (++i, two passes in measure), of simulate_circuit.
NextFrames ==
    IF InPairs
    THEN IF Continues(loop.i, Dim)
         THEN IF Continues(loop.j, Pow2(loop.a))
              THEN {[loop EXCEPT !.j = @ + 1,
                                 !.iters = IF loop.inner # "none" THEN @ ELSE @ + 1]}
              ELSE {[loop EXCEPT !.i = @ + 2 * Pow2(loop.a), !.j = 0]}
         ELSE IF loop.inner # "none"
              THEN {[loop EXCEPT !.inner = "none", !.k = @ + 1]}
              ELSE {Returned}
    ELSE IF loop.op \in {"applyCNOT", "measure"}
    THEN IF Continues(loop.i, Dim)
         THEN {[loop EXCEPT !.i = @ + 1, !.iters = @ + 1]}
         ELSE IF loop.op = "measure" /\ loop.pass = 1
              THEN {[loop EXCEPT !.pass = 2, !.i = 0, !.iters = 0]}
              ELSE {Returned}
    ELSE IF Continues(loop.k, circuit.num_gates)
         THEN {Dispatched(gate) : gate \in GateAt(loop.k)}
         ELSE {Returned}

Tick == loop.running /\ loop' \in NextFrames

Begin(op, a, b) ==
    /\ phase = "cpp"
    /\ ~loop.running
    /\ loop' = Frame(op, a, b)
    /\ locals' = Locals(state_vector)
    /\ UNCHANGED <<phase, num_qubits, state_vector, state, ret, drew, probs, err, oob,
                   rounded, circuit, bell>>

BeginSimulate ==
    /\ phase = "c"
    /\ ~circuit.null
    /\ ~loop.running
    /\ loop' = Frame("simulate_circuit", -1, -1)
    /\ locals' = Locals(state.amplitudes)
    /\ err' = "none"
    /\ UNCHANGED <<phase, num_qubits, state_vector, state, ret, drew, probs, oob,
                   rounded, circuit, bell>>

\* The inner loop body of applyH, applyX, apply_hadamard and apply_pauli_x, at
\* i + j and i + j + stride.
IteratePairs(g) ==
    /\ InPairs
    /\ Continues(loop.i, Dim)
    /\ Continues(loop.j, Pow2(loop.a))
    /\ \E m \in {PairBody(PairGate, 0, Memory, loop.i + loop.j,
                          loop.i + loop.j + Pow2(loop.a), g)} : SetMemory(m)
    /\ UNCHANGED <<err, locals>>

\* The loop body of applyCNOT, at i.
IterateCnot(g) ==
    /\ loop.op = "applyCNOT"
    /\ Continues(loop.i, Dim)
    /\ \E m \in {CnotStep(Memory, loop.i, loop.a, loop.b, g)} : SetMemory(m)
    /\ UNCHANGED <<err, locals>>

\* (variant for C22: the summing loop already zeroing the amplitudes it skips)
IterateSumWriting(g) ==
    /\ loop.op = "measure" /\ loop.pass = 1
    /\ Continues(loop.i, Dim)
    /\ locals' = [locals EXCEPT !.prob0 = IF BitSet(loop.i, loop.a) THEN @
                                          ELSE RAdd(@, norm(Load(Memory, loop.i, g)))]
    /\ oob' = IF BitSet(loop.i, loop.a) THEN oob ELSE Access(Memory, loop.i).oob
    /\ state_vector' = IF BitSet(loop.i, loop.a)
                       THEN [state_vector EXCEPT ![loop.i] = CZero]
                       ELSE state_vector
    /\ UNCHANGED <<state, err>>

\* The body of the first loop of measure, at i.
IterateSum(g) ==
    /\ loop.op = "measure" /\ loop.pass = 1
    /\ Continues(loop.i, Dim)
    /\ locals' = [locals EXCEPT !.prob0 = IF BitSet(loop.i, loop.a) THEN @
                                          ELSE RAdd(@, norm(Load(Memory, loop.i, g)))]
    /\ oob' = IF BitSet(loop.i, loop.a) THEN oob ELSE Access(Memory, loop.i).oob
    /\ UNCHANGED <<state_vector, state, err>>

\* The body of the projection loop of measure, at i.
IterateProject(g) ==
    /\ loop.op = "measure" /\ loop.pass = 2
    /\ Continues(loop.i, Dim)
    /\ \E m \in {Store(Access(Memory, loop.i), loop.i,
                       CollapseAt(Load(Memory, loop.i, g), BitSet(loop.i, loop.a),
                                  locals.bit, locals.p))} : SetMemory(m)
    /\ UNCHANGED <<err, locals>>

\* The loop body of simulate_circuit: apply_gate(state, &circuit->gates[k]),
\* which enters apply_hadamard or apply_pauli_x, or prints that the gate is not
\* implemented and returns.
IterateGates ==
    /\ loop.op = "simulate_circuit" /\ loop.inner = "none"
    /\ Continues(loop.k, circuit.num_gates)
    /\ \E gate \in GateAt(loop.k) :
         /\ loop' = Dispatched(gate)
         /\ IF gate.type \notin {GATE_H, GATE_X}
            THEN err' = "not implemented" /\ UNCHANGED oob
            ELSE oob' = (oob \/ ~ShiftDefined(gate.target)) /\ UNCHANGED err
    /\ UNCHANGED <<state_vector, state, locals>>

Iterate ==
    /\ Tick
    /\ \/ \E g \in Garbage :
            IteratePairs(g) \/ IterateCnot(g) \/ IterateSum(g) \/ IterateProject(g)
       \/ IterateGates
    /\ UNCHANGED <<phase, num_qubits, ret, drew, probs, rounded, circuit, bell>>

\* The inner loop over pairs is over: i += 2 * stride.  apply_hadamard or
\* apply_pauli_x is over: the next gate of the circuit.  The first loop of
\* measure is over: r = dist(rng), and the branch on r < prob0.
Advance ==
    /\ Tick
    /\ \/ /\ InPairs
          /\ Continues(loop.i, Dim)
          /\ ~Continues(loop.j, Pow2(loop.a))
          /\ UNCHANGED <<rounded, locals>>
       \/ /\ loop.inner # "none"
          /\ ~Continues(loop.i, Dim)
          /\ rounded' = (rounded \/ (loop.inner = "H" /\ NonZero(state.amplitudes)))
          /\ UNCHANGED locals
       \/ /\ loop.op = "measure" /\ loop.pass = 1
          /\ ~Continues(loop.i, Dim)
          /\ \E p \in Computed(locals.prob0, rounded), r \in Draws :
               locals' = [locals EXCEPT !.p = p, !.bit = Outcome(r, p)]
          /\ UNCHANGED rounded
    /\ UNCHANGED <<phase, num_qubits, state_vector, state, ret, drew, probs, err, oob,
                   circuit, bell>>

\* The last loop of the call is over.
Return ==
    /\ Tick
    /\ \/ /\ loop.op \in {"applyH", "applyX", "applyCNOT"}
          /\ ~Continues(loop.i, Dim)
          /\ rounded' = (rounded \/ (loop.op = "applyH" /\ NonZero(locals.v0)))
          /\ phase' = IF oob THEN "ub" ELSE "cpp"
          /\ Void
       \/ /\ loop.op = "measure" /\ loop.pass = 2
          /\ ~Continues(loop.i, Dim)
          /\ rounded' = RoundedAfterMeasure(locals.v0, loop.a, locals.bit, locals.p, rounded)
          /\ phase' = IF oob THEN "ub" ELSE "cpp"
          /\ Returns(locals.bit, EmptyVector) /\ drew' = TRUE
       \/ /\ loop.op = "simulate_circuit" /\ loop.inner = "none"
          /\ ~Continues(loop.k, circuit.num_gates)
          /\ phase' = IF oob THEN "ub" ELSE "c"
          /\ Void
          /\ UNCHANGED rounded
    /\ locals' = NoLocals
    /\ bell' = NoTrial
    /\ UNCHANGED <<num_qubits, state_vector, state, err, oob, circuit>>

Step == Iterate \/ Advance \/ Return

\* The gates of the circuits that SpecLoop runs: the two kinds apply_gate
\* implements and one it does not.
LoopGates == {GATE_H, GATE_X, GATE_Z}

Idle == ~loop.running /\ UNCHANGED <<last, pre, twin, loop, locals, par, opt>>

NextLoop ==
    \/ \E n \in 1..MaxQubits : circuit.null /\ Construct(n) /\ Idle /\ UNCHANGED circuit
    \/ \E q \in Qubits :
         Live(q) /\ (Begin("applyH", q, -1) \/ Begin("applyX", q, -1)
                       \/ Begin("measure", q, -1))
                 /\ UNCHANGED <<last, pre, twin, par, opt>>
    \/ \E c \in Qubits, t \in Qubits :
         Live(c) /\ Live(t) /\ c # t /\ Begin("applyCNOT", c, t) /\ UNCHANGED <<last, pre, twin, par, opt>>
    \/ \E n \in 1..MaxQubits :
         phase = "start" /\ create_circuit(n, TRUE) /\ Idle
    \/ \E type \in LoopGates, target \in Qubits :
         /\ phase = "start"
         /\ circuit.num_gates < MaxGates
         /\ InRange(target, circuit.num_qubits)
         /\ add_gate(type, target, -1)
         /\ Idle
    \/ \E n \in 1..MaxQubits :
         /\ ~circuit.null /\ n = circuit.num_qubits
         /\ create_state(n, TRUE)
         /\ Idle /\ UNCHANGED circuit
    \/ initialize_state /\ Idle /\ UNCHANGED circuit
    \/ BeginSimulate /\ UNCHANGED <<last, pre, twin, par, opt>>
    \/ Iterate /\ UNCHANGED <<last, pre, twin, par, opt>>
    \/ Advance /\ UNCHANGED <<last, pre, twin, par, opt>>
    \/ Return /\ UNCHANGED <<last, pre, twin, par, opt>>

SpecLoop == Init /\ [][NextLoop]_vars /\ WF_loop(Tick)

\* SpecWorkers: gate calls on a live register whose pair updates are taken one
\* at a time.  Fork runs one call of applyH, applyX or applyRY with the pairs
\* of its loops handed to workers, which take them in any order; Race runs
\* applyH(q1) and applyX(q2) at the same time on the one register, each call
\* in the order of its own loops.  A pair update (the body of the inner loop)
\* is one step.  The caller makes at most MaxCalls such calls on a register,
\* and none after a race.

\* (variant for C29: the mask taken as 1 << 0 whatever q is)
JobOnLowestQubit(gate, q, j, num) ==
    LET pairs == PairSeq(Pow2(0), Pow2(num))
    IN  [gate |-> gate, q |-> q, j |-> j, pairs |-> pairs, todo |-> 1..Len(pairs)]

\* A call that runs: its gate, qubit and angle, the (idx0, idx1) of its loops
\* (mask = 1 << q), and which of them are still to be done.
Job(gate, q, j, num) ==
    LET pairs == PairSeq(Pow2(q), Pow2(num))
    IN  [gate |-> gate, q |-> q, j |-> j, pairs |-> pairs, todo |-> 1..Len(pairs)]

Workers(kind, jobs) ==
    [kind |-> kind, jobs |-> jobs, v0 |-> state_vector, serial |-> TRUE,
     first |-> 0, count |-> par.count + 1]

Lowest(todo) == CHOOSE n \in todo : \A k \in todo : n <= k

Untouched(job) == job.todo = 1..Len(job.pairs)

Done(job) == job.todo = {}

AllDone == par.kind # "none" /\ \A w \in 1..Len(par.jobs) : Done(par.jobs[w])

\* No other call is part way through its loops.
Exclusive(w) ==
    \A u \in 1..Len(par.jobs) : u # w => Untouched(par.jobs[u]) \/ Done(par.jobs[u])

\* (variant for C24: a call waits while another call is part way)
MayUpdateExclusive(w) == Exclusive(w)

\* What a call waits for before an update: applyH and applyX take no lock and
\* test no flag before or inside their loops.
MayUpdate(w) == TRUE

Fork(gate, q, j) ==
    /\ phase = "cpp"
    /\ par.kind = "none"
    /\ par.count < MaxCalls
    /\ par' = Workers("fork", <<Job(gate, q, j, num_qubits)>>)
    /\ UNCHANGED <<phase, num_qubits, state_vector, state, ret, drew, probs, err, oob,
                   rounded, circuit, twin, loop, locals, opt, bell, last, pre>>

Race(q1, q2) ==
    /\ phase = "cpp"
    /\ par.kind = "none"
    /\ par.count < MaxCalls
    /\ par' = Workers("race", <<Job("H", q1, 0, num_qubits), Job("X", q2, 0, num_qubits)>>)
    /\ UNCHANGED <<phase, num_qubits, state_vector, state, ret, drew, probs, err, oob,
                   rounded, circuit, twin, loop, locals, opt, bell, last, pre>>

\* Whether the n-th update of call w is in turn.
InTurn(w, n) ==
    /\ n = Lowest(par.jobs[w].todo)
    /\ Exclusive(w)

\* The body of the inner loop of call w at its n-th pair.
PairUpdate(w, n) ==
    /\ par.kind # "none"
    /\ w \in 1..Len(par.jobs)
    /\ n \in par.jobs[w].todo
    /\ par.kind = "race" => n = Lowest(par.jobs[w].todo)
    /\ MayUpdate(w)
    /\ LET job == par.jobs[w]
       IN  \E m \in {PairBody(job.gate, job.j, Mem(state_vector),
                              job.pairs[n][1], job.pairs[n][2], CZero)} :
             /\ state_vector' = m.v
             /\ oob' = (oob \/ m.oob)
    /\ par' = [par EXCEPT !.jobs[w].todo = @ \ {n},
                          !.serial = @ /\ InTurn(w, n),
                          !.first = IF @ = 0 THEN w ELSE @]
    /\ UNCHANGED <<phase, num_qubits, state, ret, drew, probs, err, rounded, circuit,
                   twin, loop, locals, opt, bell, last, pre>>

\* Every call has returned.  The two calls of a race are the last that the
\* caller makes on the register.
Join ==
    /\ AllDone
    /\ par' = [NoWorkers EXCEPT !.count = IF par.kind = "race" THEN MaxCalls ELSE par.count]
    /\ rounded' = IF par.jobs[1].gate = "RY" THEN RoundedAfterRY(par.jobs[1].j, rounded)
                  ELSE rounded \/ (par.jobs[1].gate = "H" /\ NonZero(par.v0))
    /\ Void
    /\ bell' = NoTrial
    /\ UNCHANGED <<phase, num_qubits, state_vector, state, err, oob, circuit, twin,
                   loop, locals, opt, last, pre>>

WorkerGates == {<<"H", 0>>, <<"X", 0>>} \cup {<<"RY", j>> : j \in AngleArgs}

NextWorkers ==
    \/ \E n \in 1..MaxQubits :
         Construct(n) /\ UNCHANGED <<circuit, twin, loop, locals, par, opt, last, pre>>
    \/ \E x \in WorkerGates, q \in Qubits : Live(q) /\ Fork(x[1], q, x[2])
    \/ \E q1 \in Qubits, q2 \in Qubits : Live(q1) /\ Live(q2) /\ q1 # q2 /\ Race(q1, q2)
    \/ \E w \in {1, 2}, n \in 1..Pow2(MaxQubits) : PairUpdate(w, n)
    \/ Join

SpecWorkers == Init /\ [][NextWorkers]_vars

\* SpecCapacity: a caller that fills a circuit and goes on adding.  It chooses
\* the qubit count and the type of the first gate; each later gate has the
\* next type of the enum and the next qubit, so that the gates of a circuit
\* differ from place to place.
NextType(type) == (type + 1) % Cardinality(GateType)

NextGate ==
    LET n      == circuit.num_qubits
        before == circuit.gates[circuit.num_gates]
        type   == NextType(before.type)
        target == (before.target + 1) % n
    IN  QuantumGate(type, target,
                    IF OneQubitGate(type) \/ n = 1 THEN -1 ELSE (target + 1) % n)

NextCapacity ==
    \/ \E n \in 1..MaxQubits :
         phase = "start" /\ create_circuit(n, TRUE) /\ Record("create_circuit", n, -1)
    \/ \E type \in GateType :
         /\ ~circuit.null /\ circuit.num_gates = 0
         /\ add_gate(type, 0, -1)
         /\ Record("add_gate", type, 0)
    \/ /\ ~circuit.null /\ circuit.num_gates > 0
       /\ add_gate(NextGate.type, NextGate.target, NextGate.control)
       /\ Record("add_gate", NextGate.type, NextGate.target)

SpecCapacity == Init /\ [][NextCapacity]_vars

\* ------------------------------- QuantumTravelOptimizer (backend program)
\* struct Destination: the cost and the distance; the destination at
\* destinations[i] is named i + 1 (the names of a list differ).
Destination(cost, distance) == [cost |-> cost, distance |-> distance]

Destinations == {Destination(c, d) : c \in 1..MaxCost, d \in {1, MaxCost}}

RECURSIVE ListsOf(_)
ListsOf(len) ==
    IF len = 0 THEN {<<>>}
    ELSE {Append(l, d) : l \in ListsOf(len - 1), d \in Destinations}

\* The lists a caller passes: of 0 .. MaxDests destinations.
DestinationLists == UNION {ListsOf(len) : len \in 0..MaxDests}

\* std::min(num_qubits, destinations.size())
MinOf(a, b) == IF a < b THEN a ELSE b

\* createQAOACircuit: the indices of the state whose amplitude can differ from
\* 0.0.  state[0] = 1.0 and the one applyHadamard, over the pairs (i, i + 1),
\* leave state[0] and state[1] alone other than 0.0; applyRotation multiplies
\* each entry by a number and makes no zero entry nonzero.
QAOAState(num_states) == {i \in 0..(num_states - 1) : i < 2}

\* (variant for C30: a sampler that returns any index of the state)
measureStateAnyIndex(nonzero, num_states) == 0..(num_states - 1)

\* measureState: the indices it can return.  It returns the first i with
\* r <= cumulative: 0 (r = 0.0), or an i whose probability raised cumulative,
\* or, where r stays above the sum or the sum is a NaN, state.size() - 1.
measureState(nonzero, num_states) == {0} \cup nonzero \cup {num_states - 1}

\* The decoding loop of optimize: the names of the destinations i, in order,
\* with i < destinations.size(), i < num_qubits and bit i of best_measurement
\* set.
RECURSIVE Decode(_, _, _, _)
Decode(destinations, nq, best_measurement, i) ==
    IF ~(i < Len(destinations) /\ i < nq) THEN <<>>
    ELSE IF BitSet(best_measurement, i)
    THEN <<i + 1>> \o Decode(destinations, nq, best_measurement, i + 1)
    ELSE Decode(destinations, nq, best_measurement, i + 1)

\* final_selection.size() < static_cast<size_t>(max_destinations): a negative
\* max_destinations becomes a size_t above every size.
BelowLimit(size, max_destinations) == max_destinations < 0 \/ size < max_destinations

\* The loop of optimize that applies the constraints, from i on: it appends
\* selected_destinations[i] and tests and adds the cost and the distance of
\* destinations[i].
RECURSIVE Constrain(_, _, _, _, _, _)
Constrain(destinations, selected, max_destinations, max_budget, i, final) ==
    IF /\ i < Len(selected)
       /\ BelowLimit(Len(final.optimal_route), max_destinations)
       /\ final.optimal_cost + destinations[i + 1].cost <= max_budget
    THEN Constrain(destinations, selected, max_destinations, max_budget, i + 1,
                   [optimal_route  |-> Append(final.optimal_route, selected[i + 1]),
                    optimal_cost   |-> final.optimal_cost + destinations[i + 1].cost,
                    total_distance |-> final.total_distance + destinations[i + 1].distance])
    ELSE final

\* QuantumTravelOptimizer(qubits)
QuantumTravelOptimizer(qubits) ==
    /\ ~opt.built
    /\ opt' = [NoResult EXCEPT !.built = TRUE, !.num_qubits = qubits]
    /\ UNCHANGED <<phase, num_qubits, state_vector, state, ret, drew, probs, err, oob,
                   rounded, circuit, twin, loop, locals, par, bell, last, pre>>

\* optimize(destinations, max_destinations, max_budget).  With an empty list
\* the state has one entry and applyHadamard reads and writes state[1]: the
\* call ends there (returned is FALSE), or goes on with what it read, and
\* measureState returns 0 from a state of one entry whatever that entry is.
optimize(destinations, max_destinations, max_budget) ==
    /\ opt.built
    /\ LET k          == MinOf(opt.num_qubits, Len(destinations))
           num_states == Pow2(k)
           outside    == num_states < 2
       IN  \E best_measurement \in measureState(QAOAState(num_states), num_states),
              returned \in {TRUE} \cup {~outside} :
             \E final \in {Constrain(destinations,
                                      Decode(destinations, opt.num_qubits, best_measurement, 0),
                                      max_destinations, max_budget, 0,
                                      [optimal_route |-> <<>>, optimal_cost |-> 0,
                                       total_distance |-> 0])} :
                 opt' = [built            |-> TRUE,
                         num_qubits       |-> opt.num_qubits,
                         called           |-> TRUE,
                         returned         |-> returned,
                         outside          |-> outside,
                         destinations     |-> destinations,
                         best_measurement |-> best_measurement,
                         max_destinations |-> max_destinations,
                         max_budget       |-> max_budget,
                         optimal_route    |-> IF returned THEN final.optimal_route ELSE <<>>,
                         optimal_cost     |-> IF returned THEN final.optimal_cost ELSE 0,
                         total_distance   |-> IF returned THEN final.total_distance ELSE 0]
    /\ UNCHANGED <<phase, num_qubits, state_vector, state, ret, drew, probs, err, oob,
                   rounded, circuit, twin, loop, locals, par, bell, last, pre>>

\* SpecTravel: a caller that, as main does, builds an optimizer (of 1 ..
\* MaxQubits qubits) and calls optimize once, with a list of at most MaxDests
\* destinations, a limit from -1 up, and a budget up to the cost of every
\* destination together.
NextTravel ==
    \/ \E qubits \in 1..MaxQubits : QuantumTravelOptimizer(qubits)
    \/ /\ ~opt.called
       /\ \E destinations \in DestinationLists, max_destinations \in (-1)..MaxDests,
             max_budget \in 0..(MaxDests * MaxCost) :
            optimize(destinations, max_destinations, max_budget)

SpecTravel == Init /\ [][NextTravel]_vars

\* ============================================================== claims
\* |0...0> on n qubits: 2^n amplitudes, the first 1 + 0i, every other 0,
\* the probabilities summing to 1.
IsZeroKet(v, n) ==
    /\ DOMAIN v = 0..(Pow2(n) - 1)
    /\ v[0] = Complex(ROne, RZero)
    /\ \A i \in DOMAIN v : i # 0 => v[i] = Complex(RZero, RZero)
    /\ TotalProbability(v) = ROne

OneOverSqrt2 == <<0, 1, 1>>

\* (|00> + |11>) / sqrt(2)
IsBell(v) ==
    /\ DOMAIN v = 0..3
    /\ v[0] = Complex(OneOverSqrt2, RZero) /\ v[3] = Complex(OneOverSqrt2, RZero)
    /\ v[1] = Complex(RZero, RZero) /\ v[2] = Complex(RZero, RZero)

\* C1: after every operation of a sequence of valid calls on a constructed
\* register (applyH, applyX, applyCNOT with control # target, applyRY, measure,
\* indices in range) the squared magnitudes of the amplitudes sum to 1.
\* Violated: a measure whose prob0 is rounded to just below 1.0 and whose draw
\* lies above it takes the other branch and leaves every amplitude 0.
C1_Normalized == phase = "cpp" => TotalProbability(state_vector) = ROne

\* C2 as stated: right after QuantumSimulator(n), and right after
\* create_state(n), the register is |0...0>.  Violated by create_state, whose
\* calloc leaves every amplitude 0.
C2_FreshIsZeroKet_Original ==
    /\ last.op = "QuantumSimulator" /\ phase = "cpp" => IsZeroKet(state_vector, last.a)
    /\ last.op = "create_state" /\ phase = "c" => IsZeroKet(state.amplitudes, last.a)

\* C2: right after QuantumSimulator(n), and right after initialize_state on the
\* register create_state(n) returned, the register is |0...0>: amplitude 0 is
\* 1 + 0i, every other is 0, the probabilities sum to 1; right after
\* create_state(n) alone every amplitude is 0.
C2_FreshIsZeroKet ==
    /\ last.op = "QuantumSimulator" /\ phase = "cpp" => IsZeroKet(state_vector, last.a)
    /\ last.op = "initialize_state" => IsZeroKet(state.amplitudes, state.num_qubits)
    /\ last.op = "create_state" /\ phase = "c" =>
         /\ DOMAIN state.amplitudes = 0..(Pow2(last.a) - 1)
         /\ \A i \in DOMAIN state.amplitudes : state.amplitudes[i] = Complex(RZero, RZero)

C2_Witness ==
    /\ last.op = "initialize_state"
    /\ state.num_qubits = 2
    /\ \A i \in DOMAIN pre : pre[i] = Complex(RZero, RZero)
    /\ IsZeroKet(state.amplitudes, 2)

\* C3: on a 2-qubit register in |00>, createBellState, and applyCNOT(0, 1)
\* after applyH(0), leave amplitude[00] = amplitude[11] = 1/sqrt(2) and
\* amplitude[01] = amplitude[10] = 0.
C3_BellAmplitudes ==
    /\ last.op = "createBellState" /\ IsZeroKet(pre, 2) => IsBell(state_vector)
    /\ (/\ last = Call("applyCNOT", 0, 1, FALSE)
        /\ DOMAIN pre = 0..3
        /\ pre[0] = Complex(OneOverSqrt2, RZero) /\ pre[1] = Complex(OneOverSqrt2, RZero)
        /\ pre[2] = Complex(RZero, RZero) /\ pre[3] = Complex(RZero, RZero))
       => IsBell(state_vector)

C3_Witness == last.op = "createBellState" /\ IsZeroKet(pre, 2) /\ IsBell(state_vector)

\* C4: after createBellState on a fresh 2-qubit register, measure(0) and then
\* measure(1) return equal bits, whatever the two draws.
C4_BellCorrelated == bell.stage = 3 => bell.bits[1] = bell.bits[2]

C4_Witness == bell.stage = 3 /\ bell.bits = <<1, 1>> /\ last = Call("measure", 1, -1, FALSE)

\* C5: when measure(q) has returned b, measure(q) called again at once returns
\* b for every draw and leaves the amplitude vector as it was.
\* Violated: prob0 of the collapsed register, 1 as a real number, is taken as
\* a double just below 1.0; a draw at or above it returns 1 after 0 and
\* leaves every amplitude 0.
C5_MeasureIdempotent ==
    [][last'.op = "measure" /\ last'.again
         => ret' = ret /\ state_vector' = state_vector]_vars

\* C6: applyH(q) (apply_hadamard in C) called twice in a row on an in-range
\* qubit leaves every amplitude at its value before the first of the two calls
\* (as real numbers; the doubles return to it within rounding).
C6_HadamardTwice ==
    [][last'.op \in {"applyH", "apply_hadamard"} /\ last'.again
         => Amplitudes' = pre]_vars

C6_Witness ==
    /\ last = Call("applyH", 1, -1, TRUE)
    /\ num_qubits = 2
    /\ state_vector # pre

\* C7: applyX(q) (apply_pauli_x in C) called twice in a row on an in-range
\* qubit leaves every amplitude equal to its value before the first of the
\* two calls.
C7_PauliXTwice ==
    [][last'.op \in {"applyX", "apply_pauli_x"} /\ last'.again
         => Amplitudes' = pre]_vars

C7_Witness ==
    /\ last = Call("applyX", 0, -1, TRUE)
    /\ num_qubits = 2
    /\ state_vector # pre

\* C8: applyCNOT with control = target fails with InvalidQubitIndex and leaves
\* the amplitude vector as it was.
\* Violated: applyCNOT has no such check; with control = target its test
\* (i & control_mask) && !(i & target_mask) never holds, and the call returns
\* normally, having changed nothing and reported nothing.
C8_CnotSameQubitFails ==
    [][\A c \in QubitArgs :
         phase = "cpp" /\ InRange(c, num_qubits) /\ applyCNOT(c, c)
           => err' = "InvalidQubitIndex" /\ state_vector' = state_vector]_vars

\* C9: a gate or a measurement with a qubit index outside [0, qubitCount)
\* fails with InvalidQubitIndex, changes no amplitude, and reads and writes
\* nothing outside the amplitude vector.
\* Violated: no function checks an index; applyH, applyX and applyRY with
\* q >= num_qubits read and write past the end of the vector, applyCNOT and
\* measure return normally, and none reports an error.
C9_BadIndexFails ==
    [][\A q \in QubitArgs :
         /\ phase \in {"cpp", "c"}
         /\ (IF phase = "c" THEN state.num_qubits ELSE num_qubits) \in 1..MaxQubits
         /\ ~InRange(q, IF phase = "c" THEN state.num_qubits ELSE num_qubits)
         /\ \/ applyH(q) \/ applyX(q) \/ measure(q)
            \/ \E j \in AngleArgs : applyRY(q, j)
            \/ \E t \in QubitArgs : applyCNOT(q, t) \/ applyCNOT(t, q)
            \/ apply_hadamard(q) \/ apply_pauli_x(q)
         => /\ err' = "InvalidQubitIndex"
            /\ Amplitudes' = Amplitudes
            /\ ~oob']_vars

\* C10: construction with a qubit count <= 0, or one above the largest
\* supported, fails with a capacity error: no register, no amplitude storage.
\* Violated: QuantumSimulator checks nothing and create_state only
\* num_qubits > MAX_QUBITS; with 0 both return a register of one amplitude.
C10_BadCountFails ==
    [][\A n \in CountArgs :
         /\ n <= 0 \/ n = MAX_QUBITS + 1
         /\ Construct(n) \/ \E ok \in BOOLEAN : create_state(n, ok)
         => /\ phase' \in {"threw", "null"}
            /\ err' # "none"
            /\ state_vector' = EmptyVector
            /\ state' = NullState]_vars

\* C11: for every qubit count that QuantumSimulator or create_state accepts,
\* 1 << qubitCount in a 32-bit int is positive and equals 2^qubitCount, and the
\* amplitude vector has that length.  An int holds 2^n only for 0 <= n <= 30.
\* Violated: create_state accepts every count up to MAX_QUBITS = 32 and every
\* negative one, QuantumSimulator every count; 1 << 31, 1 << 32 and 1 << -1
\* are undefined, and a register of another length is returned.
C11_DimensionIsPowerOfTwo ==
    [][\A n \in CountArgs :
         /\ Construct(n) \/ \E ok \in BOOLEAN : create_state(n, ok)
         /\ phase' \notin {"threw", "null"}
         => /\ n >= 0 /\ n <= INT_BITS - 2
            /\ DOMAIN Amplitudes' = 0..(Pow2(n) - 1)
            /\ phase' = "c" => state'.dimension = Pow2(n)]_vars

\* The probability that measure(q) sums up for the outcome 0, on the vector v
\* of a register of n qubits.
ProbZero(v, n, q) == SumProb0(v, 0, Pow2(n), q, RZero)

\* C12: when the probability of the outcome 0 is exactly 0, measure returns 1
\* without drawing a random number; when it is exactly 1, measure returns 0
\* without drawing one.
\* Violated: measure calls dist(rng) on every path, before it looks at prob0.
C12_CertainOutcomeDrawsNothing ==
    last.op = "measure" =>
        LET prob0 == ProbZero(pre, num_qubits, last.a)
        IN  /\ prob0 = RZero => ret = 1 /\ ~drew
            /\ prob0 = ROne => ret = 0 /\ ~drew

\* C13: after measure(q) has returned b, every amplitude whose index has bit q
\* different from b is exactly 0, and every other amplitude is its value before
\* the call divided by the square root of the probability of b.  (Where that
\* probability is 0 as a real number, measure saw a few ulps instead, and the
\* amplitudes it divided were zeros.)
C13_Collapse ==
    last.op = "measure" /\ phase = "cpp" =>
        LET q == last.a
            prob0 == ProbZero(pre, num_qubits, q)
            prob_b == IF ret = 0 THEN prob0 ELSE RSub(ROne, prob0)
        IN  /\ DOMAIN state_vector = DOMAIN pre
            /\ \A i \in DOMAIN state_vector :
                 IF BitSet(i, q) # (ret = 1)
                 THEN state_vector[i] = CZero
                 ELSE IF prob_b = RZero
                 THEN pre[i] = CZero /\ state_vector[i] = CZero
                 ELSE state_vector[i] = CDivReal(pre[i], RSqrt(prob_b))

\* measure(q) has returned 0 on a superposition and has rescaled an amplitude.
C13_Witness ==
    /\ last.op = "measure" /\ phase = "cpp" /\ ret = 0
    /\ \E i \in DOMAIN state_vector :
         state_vector[i] # CZero /\ state_vector[i] # pre[i]
    /\ \E i \in DOMAIN pre : BitSet(i, last.a) /\ pre[i] # CZero

\* C19: getProbabilities returns, for every basis index i, the squared modulus
\* of amplitude i, and leaves the amplitude vector and the qubit count as they
\* were.
C19_ProbabilitiesPure ==
    [][last'.op = "getProbabilities" =>
         /\ state_vector' = state_vector
         /\ num_qubits' = num_qubits
         /\ DOMAIN probs' = 0..(Pow2(num_qubits) - 1)
         /\ \A i \in DOMAIN probs' :
              LET re == state_vector[i][1]
                  im == state_vector[i][2]
              IN  probs'[i] = RAdd(RMul(re, re), RMul(im, im))]_vars

\* getProbabilities has returned a probability of 1/2.
C19_Witness ==
    /\ last.op = "getProbabilities"
    /\ \E i \in DOMAIN probs : probs[i] = RMul(OneOverSqrt2, OneOverSqrt2)

\* C20: after applyCNOT(c, t) with c # t, both in range, the amplitude at every
\* index i with bit c set is the amplitude that was at i with bit t flipped,
\* and the amplitude at every index with bit c clear is as it was.
C20_CnotPermutes ==
    last.op = "applyCNOT" =>
        /\ DOMAIN state_vector = DOMAIN pre
        /\ \A i \in DOMAIN state_vector :
             state_vector[i] = IF BitSet(i, last.a) THEN pre[FlipBit(i, last.b)] ELSE pre[i]

\* applyCNOT has moved an amplitude, and has left one alone where the control
\* bit is clear and the amplitude with the target bit flipped differs.
C20_Witness ==
    /\ last.op = "applyCNOT"
    /\ state_vector # pre
    /\ \E i \in DOMAIN pre :
         ~BitSet(i, last.a) /\ pre[i] # pre[FlipBit(i, last.b)]

\* A run of a circuit that leaves at the first gate that fails: the gates
\* before it applied, its error kept, no gate after it applied.
RECURSIVE RunGatesStopping(_, _, _, _, _, _)
RunGatesStopping(x, gates, i, n, dim, g) ==
    IF i > n \/ x.err # "none" THEN x
    ELSE RunGatesStopping(ApplyGate(x, gates[i], dim, g), gates, i + 1, n, dim, g)

\* C14: simulate_circuit stops at the first gate that fails: the error is
\* reported to the caller and no later gate of the circuit is applied.
\* Violated: apply_gate returns void, and the loop of simulate_circuit goes on
\* to the gates after the one that was not implemented.
C14_StopsAtFirstFailure ==
    last.op = "simulate_circuit" /\ phase = "c" =>
        LET x == RunGatesStopping(Run(pre, FALSE), circuit.gates, 1, circuit.num_gates,
                                  state.dimension, CZero)
        IN  state.amplitudes = x.m.v /\ err = x.err

\* C15: apply_gate dispatches every gate kind (Hadamard, PauliX, PauliY,
\* PauliZ, CNOT, RotationY, Swap); none is reported as unsupported.
\* Violated: the switch has a case for GATE_H and GATE_X only.
C15_EveryKindDispatched ==
    last.op = "apply_gate" /\ last.a \in GateType => err # "not implemented"

\* C16: apply_gate on a gate kind it does not support reports an error and
\* leaves the state, every amplitude of it, as it was.
C16_UnsupportedLeavesState ==
    [][last'.op = "apply_gate" /\ last'.a \notin {GATE_H, GATE_X} =>
         err' = "not implemented" /\ state' = state]_vars

\* apply_gate has been called with GATE_CNOT on a superposition.
C16_Witness ==
    /\ last.op = "apply_gate" /\ last.a = GATE_CNOT
    /\ phase = "c"
    /\ Cardinality({i \in DOMAIN state.amplitudes : state.amplitudes[i] # CZero}) > 1

\* C17: two registers constructed with the same qubit count and given the
\* same gate applications and measurements return the same measurement bits
\* and end in the same amplitude vector: the random stream of a register is
\* its own state and is not seeded nondeterministically.
\* Violated: the constructor takes no seed and seeds rng from random_device.
C17_Reproducible ==
    phase = "cpp" => twin.ret = ret /\ twin.v = state_vector

\* The calls taken step by step end where the calls taken whole end.
LoopsAgree ==
    [][loop.running /\ ~loop'.running =>
         /\ loop.op = "applyH" =>
              state_vector' = HadamardLoop(Mem(locals.v0), num_qubits, loop.a, CZero).v
         /\ loop.op = "applyX" =>
              state_vector' = PauliXLoop(Mem(locals.v0), num_qubits, loop.a, CZero).v
         /\ loop.op = "applyCNOT" =>
              state_vector' = CnotLoop(Mem(locals.v0), 0, Dim, loop.a, loop.b, CZero).v
         /\ loop.op = "measure" =>
              /\ locals.p \in Computed(ProbZero(locals.v0, num_qubits, loop.a), rounded)
              /\ ret' = locals.bit
              /\ state_vector' =
                   IF locals.bit = 0 THEN ProjectZero(locals.v0, loop.a, locals.p.x)
                   ELSE IF locals.p.ulps > 0 THEN ProjectOneTiny(locals.v0, loop.a)
                   ELSE ProjectOne(locals.v0, loop.a, RSub(ROne, locals.p.x))
         /\ loop.op = "simulate_circuit" =>
              LET x == RunGates(Run(locals.v0, FALSE), circuit.gates, 1,
                                circuit.num_gates, state.dimension, CZero)
              IN  state'.amplitudes = x.m.v /\ err' = x.err /\ rounded' = x.rnd]_vars

\* The iterations of the current pass of a call are at most 2^num_qubits; the
\* gate applications of simulate_circuit are at most num_gates, and num_gates
\* when it has returned.
IterationsBounded ==
    /\ loop.op \in {"applyH", "applyX", "applyCNOT", "measure"} =>
         loop.iters <= Pow2(num_qubits)
    /\ loop.op = "simulate_circuit" =>
         /\ loop.iters <= circuit.num_gates
         /\ ~loop.running => loop.iters = circuit.num_gates

\* C18: every gate application and every measurement with in-range indices on
\* a register of valid size terminates, after at most 2^num_qubits loop
\* iterations per pass; simulate_circuit terminates after exactly num_gates
\* applications of a gate.  No call loops without bound.
C18_Terminates ==
    /\ []IterationsBounded
    /\ loop.running ~> ~loop.running

\* measure has returned from a register of MaxQubits qubits after 2^MaxQubits
\* iterations of its projection loop.
C18_Witness ==
    /\ ~loop.running /\ loop.op = "measure"
    /\ num_qubits = MaxQubits
    /\ loop.iters = Pow2(MaxQubits)

\* How many pairs of the sequence have idx as a member.
Visits(pairs, idx) ==
    Cardinality({n \in 1..Len(pairs) : idx \in {pairs[n][1], pairs[n][2]}})

\* C21: applyH(q) (apply_hadamard in C) on an in-range qubit q visits every
\* index of the 2^n vector exactly once, as a member of exactly one pair
\* (i, i + 2^q) with bit q of i clear, and replaces each pair (a, b) by
\* ((a + b)/sqrt 2, (a - b)/sqrt 2) computed from the values before the call.
C21_HadamardPairs ==
    last.op \in {"applyH", "apply_hadamard"} =>
        LET q     == last.a
            dim   == Cardinality(DOMAIN pre)
            pairs == PairSeq(Pow2(q), dim)
        IN  /\ \A idx \in 0..(dim - 1) : Visits(pairs, idx) = 1
            /\ \A n \in 1..Len(pairs) :
                 /\ ~BitSet(pairs[n][1], q)
                 /\ pairs[n][2] = pairs[n][1] + Pow2(q)
                 /\ pairs[n][2] < dim
            /\ ~oob
            /\ \A i \in 0..(dim - 1) :
                 ~BitSet(i, q) =>
                   /\ Amplitudes[i] = CDivSqrt2(CAdd(pre[i], pre[i + Pow2(q)]))
                   /\ Amplitudes[i + Pow2(q)] = CDivSqrt2(CSub(pre[i], pre[i + Pow2(q)]))

C21_Witness ==
    /\ last.op = "applyH"
    /\ last.a = 0
    /\ num_qubits = 2
    /\ pre[0] # CZero
    /\ pre[1] # CZero
    /\ pre[2] # CZero

\* C22: measure sums prob0 over the vector as it was before the call, and
\* writes no amplitude until the summing loop has passed every index and the
\* outcome is decided: while it sums, the vector is the one the call began
\* on; the outcome is chosen from the sum over that vector; the projection
\* loop has then changed only the indices it has passed.
C22_SumBeforeCollapse ==
    loop.op = "measure" /\ loop.running =>
        /\ loop.pass = 1 =>
             /\ state_vector = locals.v0
             /\ locals.bit = -1
        /\ loop.pass = 2 =>
             /\ locals.bit \in {0, 1}
             /\ locals.prob0 = ProbZero(locals.v0, num_qubits, loop.a)
             /\ locals.p \in Computed(locals.prob0, rounded)
             /\ \A idx \in 0..(Dim - 1) :
                  idx >= loop.i => state_vector[idx] = locals.v0[idx]

\* measure is half way through its projection loop on a register of MaxQubits
\* qubits, and the vector is no longer the one it summed.
C22_Witness ==
    /\ loop.op = "measure" /\ loop.running /\ loop.pass = 2
    /\ num_qubits = MaxQubits
    /\ loop.i > 0 /\ loop.i < Dim
    /\ state_vector # locals.v0

\* C23: within one call of applyH, applyX or applyRY each pair update reads
\* and writes only its own two indices, so that the pairs taken in any order,
\* or shared between workers that update a pair in one step, leave the vector
\* the sequential loop leaves: an update changes the vector at its two indices
\* only, and when every pair is done the vector is that of the loop run in
\* order on the vector the call began with.
C23_AnyOrder ==
    /\ [][\A w \in {1}, n \in 1..Pow2(MaxQubits) :
            par.kind = "fork" /\ PairUpdate(w, n) =>
              \A idx \in DOMAIN state_vector :
                idx \notin {par.jobs[w].pairs[n][1], par.jobs[w].pairs[n][2]} =>
                  state_vector'[idx] = state_vector[idx]]_vars
    /\ [](par.kind = "fork" /\ AllDone =>
            LET job == par.jobs[1]
            IN  state_vector = ForPairs(job.gate, job.j, Mem(par.v0), job.pairs, 1, CZero).v)

\* A call of applyH on a register of MaxQubits qubits is done, its pairs taken
\* out of loop order, from a vector the call has changed.
C23_Witness ==
    /\ par.kind = "fork" /\ AllDone
    /\ par.jobs[1].gate = "H"
    /\ num_qubits = MaxQubits
    /\ ~par.serial
    /\ state_vector # par.v0

\* The final vectors of the two serial orders of the calls of a race.
HThenX == PauliXLoop(HadamardLoop(Mem(par.v0), num_qubits, par.jobs[1].q, CZero),
                     num_qubits, par.jobs[2].q, CZero).v

XThenH == HadamardLoop(PauliXLoop(Mem(par.v0), num_qubits, par.jobs[2].q, CZero),
                       num_qubits, par.jobs[1].q, CZero).v

\* The next pair update of call w of a race, as a step of the program.
NextUpdate(w) ==
    /\ par.kind = "race"
    /\ ~Done(par.jobs[w])
    /\ PairUpdate(w, Lowest(par.jobs[w].todo))

\* C24: the simulator has no guard against concurrent use.  While applyH(q1)
\* and applyX(q2) run on the same register, a call that has a pair left can
\* always take it, however far the other call has got; and the interleaving
\* of the witness ends in a vector that neither serial order gives.
C24_NoGuard ==
    par.kind = "race" =>
        \A w \in {1, 2} : ~Done(par.jobs[w]) => ENABLED NextUpdate(w)

\* applyH(0) and applyX(1) on |00>, interleaved pair by pair, have ended in a
\* vector that differs from the vector of either serial order.
C24_Witness ==
    /\ par.kind = "race" /\ AllDone
    /\ par.jobs[1].q = 0 /\ par.jobs[2].q = 1
    /\ num_qubits = 2
    /\ par.v0 = InitVector(4)
    /\ ~par.serial
    /\ state_vector # HThenX
    /\ state_vector # XThenH

\* The circuit main builds: add_gate(GATE_H, 0, -1); add_gate(GATE_X, 1, 0).
BellCircuit == <<QuantumGate(GATE_H, 0, -1), QuantumGate(GATE_X, 1, 0)>>

\* C25: simulate_circuit on the "Bell State" circuit of main and an
\* initialized 2-qubit state leaves the Bell state, 1/sqrt 2 at |00> and |11>
\* and 0 at |01> and |10>: GATE_X with a control flips the target only where
\* the control bit is 1.
\* Violated: apply_gate passes gate->target alone to apply_pauli_x, which
\* flips qubit 1 at every index; the state is 1/sqrt 2 at |10> and |11>.
C25_BellCircuit ==
    /\ last.op = "simulate_circuit"
    /\ circuit.gates = BellCircuit
    /\ pre = InitializedVector(4)
    => IsBell(state.amplitudes)

\* simulate_circuit is running.
Simulating == loop.op = "simulate_circuit" /\ loop.running

\* C26: simulate_circuit applies the gates in the order add_gate inserted
\* them, each exactly once, and leaves the circuit (gate list, num_gates,
\* num_qubits) as it was: the gate it hands to apply_gate after k applications
\* is gates[k], it returns after num_gates applications with the state the
\* gates give when applied first to last, and no step of it changes the
\* circuit.
C26_InOrderOnce ==
    /\ [](Simulating =>
            /\ loop.k <= circuit.num_gates
            /\ loop.iters = loop.k + (IF loop.inner # "none" THEN 1 ELSE 0))
    /\ [][Simulating => circuit' = circuit]_vars
    /\ [][Simulating /\ loop'.iters = loop.iters + 1 =>
            loop' = Dispatched(circuit.gates[loop.iters + 1])]_vars
    /\ [][Simulating /\ ~loop'.running =>
            /\ loop.iters = circuit.num_gates
            /\ state'.amplitudes =
                 RunGates(Run(locals.v0, FALSE), circuit.gates, 1, circuit.num_gates,
                          state.dimension, CZero).m.v]_vars

\* simulate_circuit has returned from a circuit of MaxGates gates, the first
\* GATE_H and the last GATE_X, which has changed the state.
C26_Witness ==
    /\ loop.op = "simulate_circuit" /\ ~loop.running
    /\ circuit.num_gates = MaxGates
    /\ circuit.gates[1].type = GATE_H
    /\ circuit.gates[MaxGates].type = GATE_X
    /\ loop.iters = MaxGates
    /\ state.amplitudes # InitializedVector(state.dimension)

\* measure has decided its outcome and is in, or about to enter, the loop that
\* divides.
Collapsing == loop.op = "measure" /\ loop.running /\ loop.pass = 2

C28_Capacity ==
    /\ [](~circuit.null =>
            /\ circuit.num_gates >= 0
            /\ circuit.num_gates <= MAX_GATES
            /\ Len(circuit.gates) = circuit.num_gates)
    /\ [][last'.op = "add_gate" =>
            IF circuit.num_gates < MAX_GATES
            THEN /\ circuit'.num_gates = circuit.num_gates + 1
                 /\ SubSeq(circuit'.gates, 1, circuit.num_gates) = circuit.gates
                 /\ circuit'.gates[circuit'.num_gates].type = last'.a
                 /\ circuit'.gates[circuit'.num_gates].target = last'.b
                 /\ err' = "none"
            ELSE /\ circuit' = circuit
                 /\ err' = "too many gates"]_vars

\* add_gate has been refused on a circuit of MAX_GATES gates.
C28_Witness ==
    /\ last.op = "add_gate"
    /\ circuit.num_gates = MAX_GATES
    /\ err = "too many gates"
    /\ circuit.gates[1] # circuit.gates[MAX_GATES]

\* C29: gates on distinct qubits commute.  For in-range q1 # q2 and any state
\* of the register, applyH(q1) followed by applyX(q2) leaves the vector that
\* applyX(q2) followed by applyH(q1) leaves: whichever of the two calls runs
\* first and to its end before the other begins, the final vector is the
\* same, that of either order of the two loops on the vector they began with.
C29_Commute ==
    par.kind = "race" /\ AllDone /\ par.serial =>
        /\ par.jobs[1].q # par.jobs[2].q
        /\ state_vector = HThenX
        /\ state_vector = XThenH

\* applyX(1) and then applyH(0) have run, one after the other, on a register
\* of MaxQubits qubits that an earlier call had changed.
C29_Witness ==
    /\ par.kind = "race" /\ AllDone /\ par.serial
    /\ par.first = 2
    /\ par.jobs[1].q = 0 /\ par.jobs[2].q = 1
    /\ num_qubits = MaxQubits
    /\ par.count = MaxCalls
    /\ par.v0 # InitVector(Pow2(num_qubits))
    /\ state_vector # par.v0

\* The sum of a field over the destinations that a route names.
RECURSIVE SumOver(_, _, _)
SumOver(route, destinations, field) ==
    IF route = <<>> THEN 0
    ELSE destinations[Head(route)][field] + SumOver(Tail(route), destinations, field)

\* C30: the optimal_cost and the total_distance that optimize reports are the
\* sums of the cost and of the distance of exactly the destinations named in
\* the optimal_route it returns, for every destination list, every bit
\* pattern it measures, every max_destinations and max_budget: the cost that
\* the loop tests against the budget and adds is that of the destination it
\* appends.  (The loop appends selected_destinations[i] and reads
\* destinations[i]; the two are one destination because the patterns that
\* measureState can return from the state of createQAOACircuit, 0, 1 and all
\* ones, select the first destinations of the list.)
C30_ReportedSums ==
    opt.called /\ opt.returned =>
        /\ opt.optimal_cost = SumOver(opt.optimal_route, opt.destinations, "cost")
        /\ opt.total_distance = SumOver(opt.optimal_route, opt.destinations, "distance")
        /\ \A i \in 1..Len(opt.optimal_route) : opt.optimal_route[i] = i

\* optimize has returned a route of MaxDests destinations of different cost
\* and distance, from the pattern of all ones.
C30_Witness ==
    /\ opt.called /\ opt.returned
    /\ Len(opt.destinations) = MaxDests
    /\ Len(opt.optimal_route) = MaxDests
    /\ opt.best_measurement = Pow2(MaxDests) - 1
    /\ opt.destinations[1].cost # opt.destinations[MaxDests].cost
    /\ opt.destinations[1].distance # opt.destinations[MaxDests].distance
    /\ opt.optimal_cost = opt.max_budget

====
